---- MODULE Spec2Model ----
(***************************************************************************)
(* A model of the cntx library: the AES-128-CTR random-access reader       *)
(* (src/src/util.rs), the key database (src/src/key.rs), the NCA container *)
(* (src/src/nca.rs), the PFS0 reader (src/src/pfs0.rs) and the RomFS       *)
(* reader with its directory iterator (src/src/romfs.rs).                  *)
(*                                                                         *)
(* Seven specifications share the variables below:                         *)
(*   SpecCtr     wrappers A and B of Aes128CtrReader over one shared source *)
(*   SpecKeys    Keyset::from line by line, then NCA::new                   *)
(*   SpecNca     NCA::new over varied section tables, then the two opens    *)
(*   SpecPfs0    PFS0::new and PFS0::read_file over a plain source          *)
(*   SpecRomFs   RomFs::new, then its lookups and reads by path             *)
(*   SpecRomIter RomFs::new, directory iterators from the root down, and    *)
(*               the other holders of the source                            *)
(*   SpecRomWalk the chain walks of the RomFs, one loop iteration a step,   *)
(*               under the fairness of a call that keeps running            *)
(* A specification leaves the variables of the other components alone.     *)
(***************************************************************************)
EXTENDS Integers, Sequences, FiniteSets, TLC

VARIABLES
    base,       \* the shared base source of the CTR wrappers: [len, pos]
    rd,         \* Aes128CtrReader per wrapper: [made, base_offset, offset, ctr, key]
    fresh,      \* the P of A's last seek(Start(P)) that A has not read after yet, or -1
    run,        \* A's reads since its seek(Start(L)), no other call between: [w, start, out]
    last,       \* the call just made, when it is A's read after its seek(Start(P)): [w, P, n, res, out]
    key_lines,  \* the lines of the key file Keyset::from has consumed
    keyset,     \* the Keyset built from them
    nca,        \* the outcome of NCA::new: [state, err, header, fs_headers, dec_key_area, sel]
    opened,     \* the outcome of the open_*_filesystem call just made
    crashed,    \* a panic has ended the program
    pfs_src,    \* the source under the PFS0 reader: [len, pos, img], img its header and tables
    pfs0,       \* the outcome of PFS0::new: [state, err, header, file_entries]
    pfs_call,   \* the PFS0 call just made: [op, idx, offset, len, res, err, ret, buf, ops]
    overflow_checks, \* whether the build panics on integer overflow (debug) or wraps (release)
    romfs_img,  \* the RomFS image: header, bucket tables, entry tables
    romfs_src,  \* the source under the RomFs reader: [len, pos], the first len bytes of the image
    romfs,      \* the outcome of RomFs::new: [state, err, header]
    romfs_call, \* the RomFs or iterator call just made
    iter,       \* the RomFsDirectoryIterator last opened: [it, path, from_root, reported]
    walk        \* a chain walk in progress: [state, kind, parent, name, cur, next, res]

ctrVars == <<base, rd, fresh, run, last>>
ncaVars == <<key_lines, keyset, nca, opened, crashed>>
pfsVars == <<pfs_src, pfs0, pfs_call, overflow_checks>>
romVars == <<romfs_img, romfs_src, romfs, romfs_call, iter, walk>>
vars == <<base, rd, fresh, run, last, key_lines, keyset, nca, opened, crashed,
          pfs_src, pfs0, pfs_call, overflow_checks,
          romfs_img, romfs_src, romfs, romfs_call, iter, walk>>

(***************************************************************************)
(* Bytes and the cipher                                                    *)
(***************************************************************************)

\* One bit-wise exclusive or of two n-bit numbers.
RECURSIVE XorBits(_, _, _)
XorBits(a, b, n) ==
    IF n = 0 THEN 0
    ELSE (((a % 2) + (b % 2)) % 2) + 2 * XorBits(a \div 2, b \div 2, n - 1)

Xor8(a, b) == XorBits(a, b, 8)

Max(a, b) == IF a < b THEN b ELSE a

\* AES block size, the alignment of a CTR read window.
BLOCK == 16

\* The ciphertext byte the base source holds at absolute position p.
BaseByte(p) == ((p * 13) + 5) % 256

\* Byte i of the AES-128 encryption of counter block `block` under (key, ctr):
\* the cipher is a keyed pseudo-random function of the counter block, kept
\* here as a fixed mixing function that tells keys, nonces, blocks and byte
\* positions apart.
Keystream(key, ctr, block, i) == ((key * 29) + (ctr * 31) + (block * 17) + (i * 7) + 11) % 256

\* get_nintendo_tweak(((aligned_offset as u128) >> 4) | ((ctr as u128) << 64)):
\* the 128-bit big-endian counter block, kept as its two 64-bit halves.
get_nintendo_tweak(hi, lo) == [hi |-> hi, lo |-> lo]

align_down(value, align) == value - (value % align)

align_up(value, align) == ((value + align - 1) \div align) * align

\* Ctr128::decrypt over a buffer: byte j is xored with byte j % 16 of the
\* encryption of counter block iv + j / 16.
CtrDecrypt(key, iv, buf) ==
    [j \in 1..Len(buf) |->
        Xor8(buf[j], Keystream(key, iv.hi, iv.lo + ((j - 1) \div BLOCK), (j - 1) % BLOCK))]

\* The plaintext of absolute position p of the base source under (key, ctr).
PlainByte(key, ctr, p) == Xor8(BaseByte(p), Keystream(key, ctr, p \div BLOCK, p % BLOCK))

PlainRange(key, ctr, from, n) == [j \in 1..n |-> PlainByte(key, ctr, from + j - 1)]

(***************************************************************************)
(* The shared base source: a file (std::fs::File, as the tests open it).   *)
(* Offsets are u64 in the code; the model keeps the value read as i64, so  *)
(* a negative number is the u64 above i64::MAX that `as u64` makes of it.  *)
(***************************************************************************)

\* File::seek(SeekFrom::Start(p)): fails (EINVAL) for a p above i64::MAX and
\* leaves the position alone; any other p becomes the position, also past the end.
FileSeekStart(b, p) ==
    IF p < 0 THEN [ok |-> FALSE, b |-> b]
    ELSE [ok |-> TRUE, b |-> [b EXCEPT !.pos = p]]

\* File::read into a buffer of n bytes: the bytes left from the position on,
\* at most n, and the position moves past them.
FileRead(b, n) ==
    LET left == IF b.len > b.pos THEN b.len - b.pos ELSE 0
        got  == IF n < left THEN n ELSE left
    IN  [size |-> got,
         bytes |-> [j \in 1..got |-> BaseByte(b.pos + j - 1)],
         b |-> [b EXCEPT !.pos = b.pos + got]]

(***************************************************************************)
(* Aes128CtrReader                                                         *)
(***************************************************************************)

Readers == {"A", "B"}

NoReader == [made |-> FALSE, base_offset |-> 0, offset |-> 0, ctr |-> 0, key |-> 0]

\* Aes128CtrReader::new: seeks the base to base_offset (unwrap) and starts there.
Aes128CtrReader_new(b, base_offset, ctr, key) ==
    [r |-> [made |-> TRUE, base_offset |-> base_offset, offset |-> base_offset,
            ctr |-> ctr, key |-> key],
     b |-> FileSeekStart(b, base_offset).b]

\* impl Seek for Aes128CtrReader: the new own offset, then the base is put there.
\* SeekFrom::End adds to the own offset as SeekFrom::Current does.
Aes128CtrReader_seek(r, b, pos) ==
    LET off == CASE pos.kind = "Start"   -> r.base_offset + pos.val
                 [] pos.kind = "Current" -> r.offset + pos.val
                 [] pos.kind = "End"     -> r.offset + pos.val
        s   == FileSeekStart(b, off)
    IN  [ok |-> s.ok, r |-> [r EXCEPT !.offset = off], b |-> s.b]

\* impl Read for Aes128CtrReader, for a caller buffer of n bytes.
Aes128CtrReader_read(r, b, n) ==
    LET offset             == b.pos                       \* stream_position of the base
        aligned_offset     == align_down(offset, BLOCK)
        diff               == offset - aligned_offset
        read_buf_size_raw  == n + diff
        read_buf_size      == align_up(read_buf_size_raw, BLOCK)
        read_buf_size_diff == read_buf_size - read_buf_size_raw
        s1                 == Aes128CtrReader_seek(r, b, [kind |-> "Current", val |-> 0 - diff])
        fr                 == FileRead(s1.b, read_buf_size)
        read_buf           == [j \in 1..read_buf_size |->
                                  IF j <= fr.size THEN fr.bytes[j] ELSE 0]
        s2                 == Aes128CtrReader_seek(s1.r, fr.b,
                                  [kind |-> "Current", val |-> fr.size - read_buf_size_diff])
        iv                 == get_nintendo_tweak(r.ctr, aligned_offset \div BLOCK)
        dec                == CtrDecrypt(r.key, iv, read_buf)
    IN  IF ~s1.ok THEN [res |-> "Err", out |-> << >>, r |-> s1.r, b |-> s1.b]
        ELSE IF ~s2.ok THEN [res |-> "Err", out |-> << >>, r |-> s2.r, b |-> s2.b]
        ELSE [res |-> "Ok", out |-> [j \in 1..n |-> dec[diff + j]], r |-> s2.r, b |-> s2.b]

\* The bytes a wrapper's section holds: from its base_offset to the end of the base.
LogicalLen(w) == base.len - rd[w].base_offset

\* Input bounds of SpecCtr. Wrapper A is the one watched (fresh, run, last);
\* wrapper B shares the base and moves it between A's calls.
MaxBaseLen == 32
BaseLens == {MaxBaseLen - 12, MaxBaseLen}
BaseOffsets == {0, 4}
CtrOf == [w \in Readers |-> IF w = "A" THEN 1 ELSE 2]
CtrKey == 3
StartSeeks == {0, 3, 16}
ReadLens == {1, 3, 16, 17}
MaxRun == 20
SeekInputs(w) ==
    IF w = "A"
    THEN [kind : {"Start"}, val : StartSeeks] \cup [kind : {"Current", "End"}, val : {-1}]
    ELSE [kind : {"Start"}, val : {5}]

NoRun == [w |-> "none", start |-> 0, out |-> << >>]
NoLast == [w |-> "none", P |-> -1, n |-> 0, res |-> "none", out |-> << >>]

(***************************************************************************)
(* Keyset                                                                  *)
(***************************************************************************)

\* A 16-byte key is kept as a number; 0 is the all-zero key [0; 0x10].
ZeroKey == 0

\* Vec::resize(new_len, value)
VecResize(v, new_len, value) ==
    IF new_len <= Len(v) THEN SubSeq(v, 1, new_len)
    ELSE v \o [k \in 1..(new_len - Len(v)) |-> value]

\* Vec::insert(index, element), for index <= len: the elements from index on move right.
VecInsert(v, index, element) ==
    SubSeq(v, 1, index) \o <<element>> \o SubSeq(v, index + 1, Len(v))

\* A key name is kept as its base and the characters after it (hex digits as numbers).
\* Keyset::get_key_name_idx: the two hex digits after base_name, or None (-1).
get_key_name_idx(base_name, name) ==
    IF name.base = base_name /\ Len(name.hh) = 2
    THEN (16 * name.hh[1]) + name.hh[2]
    ELSE -1

\* The body of the `for line in lines` loop of Keyset::from for one line.
Keyset_line(ks, line) ==
    LET app == get_key_name_idx("key_area_key_application_", line.name)
        oce == get_key_name_idx("key_area_key_ocean_", line.name)
        sys == get_key_name_idx("key_area_key_system_", line.name)
        put(v, idx) == VecInsert(IF idx >= Len(v) THEN VecResize(v, idx, ZeroKey) ELSE v,
                                 idx, line.value)
    IN  IF line.name.base = "header_key" /\ Len(line.name.hh) = 0
        THEN [ks EXCEPT !.header_key = line.value]
        ELSE IF app >= 0
        THEN [ks EXCEPT !.key_area_keys_application = put(ks.key_area_keys_application, app)]
        ELSE IF oce >= 0
        THEN [ks EXCEPT !.key_area_keys_ocean = put(ks.key_area_keys_ocean, oce)]
        ELSE IF sys >= 0
        THEN [ks EXCEPT !.key_area_keys_system = put(ks.key_area_keys_system, sys)]
        ELSE ks

EmptyKeyset ==
    [header_key |-> ZeroKey,
     key_area_keys_application |-> << >>,
     key_area_keys_ocean |-> << >>,
     key_area_keys_system |-> << >>]

\* Keyset::from over a whole file.
RECURSIVE Keyset_from(_)
Keyset_from(lines) ==
    IF lines = << >> THEN EmptyKeyset
    ELSE Keyset_line(Keyset_from(SubSeq(lines, 1, Len(lines) - 1)), lines[Len(lines)])

\* Whether the file holds a line for index idx of the family with this base name.
HasKeyLine(lines, base_name, idx) ==
    \E k \in 1..Len(lines) : get_key_name_idx(base_name, lines[k].name) = idx

(***************************************************************************)
(* NCA                                                                     *)
(***************************************************************************)

MAX_FILESYSTEM_COUNT == 4
MEDIA_UNIT_SIZE == 512

\* Header::MAGIC
Header_MAGIC == "NCA3"

KeyAreaEncryptionKeyIndex == {"Application", "Ocean", "System"}
FileSystemType == {"RomFs", "PartitionFs"}
EncryptionType == {"Auto", "None", "AesCtrOld", "AesCtr", "AesCtrEx"}

\* The name base of the key lines of a key-area-encryption-key index.
FamilyBase(kaek) ==
    CASE kaek = "Application" -> "key_area_key_application_"
      [] kaek = "Ocean"       -> "key_area_key_ocean_"
      [] kaek = "System"      -> "key_area_key_system_"

\* Header::get_key_generation
get_key_generation_NoQuirk(header) ==
    IF header.key_generation_old < header.key_generation
    THEN header.key_generation
    ELSE header.key_generation_old

get_key_generation(header) ==
    LET base_key_gen == IF header.key_generation_old < header.key_generation
                        THEN header.key_generation
                        ELSE header.key_generation_old
    IN  IF base_key_gen > 0 THEN base_key_gen - 1 ELSE base_key_gen

\* AES-128-ECB decryption of the encrypted key area under key_area_key, kept as
\* a keyed bijection of the area; the result is the area's aes_ctr_key.
EcbDecryptKeyArea(key_area_key, area) == ((area + 256) - ((key_area_key * 37) % 256)) % 256

NoHeader ==
    [magic |-> "", key_generation_old |-> 0, key_generation |-> 0,
     key_area_encryption_key_index |-> "", fs_entries |-> << >>, encrypted_key_area |-> 0]

NoNca ==
    [state |-> "none", err |-> "", header |-> NoHeader, fs_headers |-> << >>,
     dec_key_area |-> 0, sel |-> [kaek |-> "", idx |-> -1, key |-> -1]]

\* NCA::new(reader, keyset) for a source whose first 0x400 bytes decrypt (XTS,
\* header_key) to `header` and whose next 4 * 0x200 bytes decrypt to `fs_headers`;
\* `complete` says whether the source holds all 0xC00 bytes (read_exact).
\* sel records the table, the index and the key that selected the key-area key.
NCA_new(ks, header, fs_headers, complete) ==
    LET key_gen == get_key_generation(header)
        table   == CASE header.key_area_encryption_key_index = "Application"
                            -> ks.key_area_keys_application
                     [] header.key_area_encryption_key_index = "Ocean"
                            -> ks.key_area_keys_ocean
                     [] header.key_area_encryption_key_index = "System"
                            -> ks.key_area_keys_system
        sel0    == [kaek |-> header.key_area_encryption_key_index, idx |-> key_gen, key |-> -1]
        retained == SelectSeq([i \in 1..MAX_FILESYSTEM_COUNT |-> i],
                        LAMBDA i : header.fs_entries[i].start_offset * MEDIA_UNIT_SIZE > 0)
    IN  IF ~complete
        THEN [NoNca EXCEPT !.state = "Err", !.err = "UnexpectedEof"]
        ELSE IF key_gen >= Len(table)
        THEN [NoNca EXCEPT !.state = "Panic", !.header = header, !.sel = sel0]
                                                     \* index out of bounds
        ELSE [state |-> "Ok", err |-> "",
              header |-> header,
              fs_headers |-> [k \in 1..Len(retained) |-> fs_headers[retained[k]]],
              dec_key_area |-> EcbDecryptKeyArea(table[key_gen + 1], header.encrypted_key_area),
              sel |-> [sel0 EXCEPT !.key = table[key_gen + 1]]]

NoOpen ==
    [op |-> "none", idx |-> -1, res |-> "none", err |-> "", msg |-> "",
     start_offset |-> -1, fs_type |-> "", encryption_type |-> "",
     reader |-> [base_offset |-> -1, ctr |-> -1, key |-> -1]]

\* What an open call consulted: the fs entry's start_offset and the fs header's types.
Consulted(o, fs_header, fs_entry) ==
    [o EXCEPT !.start_offset = fs_entry.start_offset,
              !.fs_type = fs_header.fs_type,
              !.encryption_type = fs_header.encryption_type]

\* NCA::open_pfs0_filesystem(idx), idx 0-based as in the code; fs_new is the
\* outcome of PFS0::new over the section reader it builds.
open_pfs0_filesystem_EncFirst(n, idx, fs_new) ==
    LET fs_header == n.fs_headers[idx + 1]
        fs_entry  == n.header.fs_entries[idx + 1]
        o0        == [NoOpen EXCEPT !.op = "pfs0", !.idx = idx]
    IN  IF idx >= Len(n.fs_headers)
        THEN [o0 EXCEPT !.res = "Err", !.err = "InvalidInput", !.msg = "Invalid filesystem index"]
        ELSE IF fs_header.encryption_type # "AesCtr"
        THEN [Consulted(o0, fs_header, fs_entry) EXCEPT
                  !.res = "Panic", !.msg = "not yet implemented: Unsupported crypto type"]
        ELSE IF fs_header.fs_type # "PartitionFs"
        THEN [Consulted(o0, fs_header, fs_entry) EXCEPT
                  !.res = "Err", !.err = "InvalidInput", !.msg = "Invalid filesystem type"]
        ELSE [Consulted(o0, fs_header, fs_entry) EXCEPT
                  !.res = fs_new.res, !.err = fs_new.err, !.msg = fs_new.msg,
                  !.reader = [base_offset |-> (fs_entry.start_offset * MEDIA_UNIT_SIZE)
                                                  + fs_header.pfs0_offset,
                              ctr |-> fs_header.ctr, key |-> n.dec_key_area]]

open_pfs0_filesystem(n, idx, fs_new) ==
    LET fs_header == n.fs_headers[idx + 1]
        fs_entry  == n.header.fs_entries[idx + 1]
        o0        == [NoOpen EXCEPT !.op = "pfs0", !.idx = idx]
        fs_start_offset == fs_entry.start_offset * MEDIA_UNIT_SIZE
    IN  IF idx >= Len(n.fs_headers)
        THEN [o0 EXCEPT !.res = "Err", !.err = "InvalidInput", !.msg = "Invalid filesystem index"]
        ELSE IF fs_header.fs_type # "PartitionFs"
        THEN [Consulted(o0, fs_header, fs_entry) EXCEPT
                  !.res = "Err", !.err = "InvalidInput", !.msg = "Invalid filesystem type"]
        ELSE IF fs_header.encryption_type = "AesCtr"
        THEN [Consulted(o0, fs_header, fs_entry) EXCEPT
                  !.res = fs_new.res, !.err = fs_new.err, !.msg = fs_new.msg,
                  !.reader = [base_offset |-> fs_start_offset + fs_header.pfs0_offset,
                              ctr |-> fs_header.ctr, key |-> n.dec_key_area]]
        ELSE [Consulted(o0, fs_header, fs_entry) EXCEPT       \* todo!(...)
                  !.res = "Panic", !.msg = "not yet implemented: Unsupported crypto type"]

\* NCA::open_romfs_filesystem(idx); fs_new is the outcome of RomFs::new.
open_romfs_filesystem(n, idx, fs_new) ==
    LET fs_header == n.fs_headers[idx + 1]
        fs_entry  == n.header.fs_entries[idx + 1]
        o0        == [NoOpen EXCEPT !.op = "romfs", !.idx = idx]
        fs_start_offset == fs_entry.start_offset * MEDIA_UNIT_SIZE
    IN  IF idx >= Len(n.fs_headers)
        THEN [o0 EXCEPT !.res = "Err", !.err = "InvalidInput", !.msg = "Invalid filesystem index"]
        ELSE IF fs_header.fs_type # "RomFs"
        THEN [Consulted(o0, fs_header, fs_entry) EXCEPT
                  !.res = "Err", !.err = "InvalidInput", !.msg = "Invalid filesystem type"]
        ELSE IF fs_header.encryption_type = "AesCtr"
        THEN [Consulted(o0, fs_header, fs_entry) EXCEPT
                  !.res = fs_new.res, !.err = fs_new.err, !.msg = fs_new.msg,
                  !.reader = [base_offset |-> fs_start_offset + fs_header.ivfc_last_level_offset,
                              ctr |-> fs_header.ctr, key |-> n.dec_key_area]]
        ELSE [Consulted(o0, fs_header, fs_entry) EXCEPT       \* todo!(...)
                  !.res = "Panic", !.msg = "not yet implemented: Unsupported crypto type"]

(***************************************************************************)
(* PFS0                                                                    *)
(***************************************************************************)

\* usize::MAX. The code's usize has 64 bits; the model keeps its wrap-around
\* at a width that can be enumerated.
USIZE_MAX == 255

\* Header::MAGIC of pfs0.rs
PFS0_MAGIC == "PFS0"

\* std::mem::size_of::<Header>() and size_of::<FileEntry>()
SizeOfHeader == 16
SizeOfFileEntry == 24

\* The byte the PFS0 source holds at position p of its data region.
PfsByte(p) == ((p * 11) + 7) % 256

NoPfs0 ==
    [state |-> "none", err |-> "",
     header |-> [magic |-> "", file_count |-> 0, string_table_size |-> 0],
     file_entries |-> << >>]

NoPfsCall ==
    [op |-> "none", idx |-> -1, offset |-> -1, len |-> -1, res |-> "none", err |-> "",
     ret |-> -1, buf |-> << >>, ops |-> << >>]

\* PFS0::new over a source at position 0: three read_exact steps, each failing
\* with UnexpectedEof on a source that ends before it, and the magic check.
PFS0_new(src) ==
    LET img       == src.img
        tables    == SizeOfHeader + (SizeOfFileEntry * img.file_count)
        data_base == tables + img.string_table_size
        fail(e)   == [NoPfs0 EXCEPT !.state = "Err", !.err = e]
    IN  IF src.len < SizeOfHeader
        THEN [p |-> fail("UnexpectedEof"), src |-> [src EXCEPT !.pos = src.len]]
        ELSE IF img.magic # PFS0_MAGIC
        THEN [p |-> fail("InvalidInput"), src |-> [src EXCEPT !.pos = SizeOfHeader]]
        ELSE IF src.len < data_base
        THEN [p |-> fail("UnexpectedEof"), src |-> [src EXCEPT !.pos = src.len]]
        ELSE [p |-> [state |-> "Ok", err |-> "",
                     header |-> [magic |-> img.magic, file_count |-> img.file_count,
                                 string_table_size |-> img.string_table_size],
                     file_entries |-> img.entries],
              src |-> [src EXCEPT !.pos = data_base]]

\* PFS0::get_file_size(idx)
PFS0_get_file_size(p, idx) ==
    IF idx >= Len(p.file_entries)
    THEN [NoPfsCall EXCEPT !.op = "get_file_size", !.idx = idx,
                           !.res = "Err", !.err = "InvalidInput"]
    ELSE [NoPfsCall EXCEPT !.op = "get_file_size", !.idx = idx,
                           !.res = "Ok", !.ret = p.file_entries[idx + 1].size]

\* read_file with a data base that leaves the string table out.
PFS0_read_file_NoStringTable(p, src, checks, idx, offset, buf) ==
    LET n       == Len(buf)
        call    == [NoPfsCall EXCEPT !.op = "read_file", !.idx = idx, !.offset = offset,
                                     !.len = n, !.buf = buf]
        entry   == p.file_entries[idx + 1]
        wrap(x) == x % (USIZE_MAX + 1)
        end     == offset + n
        base_offset      == SizeOfHeader + (SizeOfFileEntry * p.header.file_count)
        base_read_offset == wrap(base_offset) + entry.offset
        read_offset      == wrap(base_read_offset) + offset
        pos     == wrap(read_offset)
        left    == IF src.len > pos THEN src.len - pos ELSE 0
        got     == IF n < left THEN n ELSE left
    IN  IF idx >= Len(p.file_entries)
        THEN [c |-> [call EXCEPT !.res = "Err", !.err = "InvalidInput"], src |-> src]
        ELSE IF checks /\ end > USIZE_MAX
        THEN [c |-> [call EXCEPT !.res = "Panic"], src |-> src]
        ELSE IF wrap(end) > entry.size
        THEN [c |-> [call EXCEPT !.res = "Err", !.err = "UnexpectedEof"], src |-> src]
        ELSE IF checks /\ (base_offset > USIZE_MAX \/ base_read_offset > USIZE_MAX
                              \/ read_offset > USIZE_MAX)
        THEN [c |-> [call EXCEPT !.res = "Panic"], src |-> src]
        ELSE IF pos > USIZE_MAX \div 2
        THEN [c |-> [call EXCEPT !.res = "Err", !.err = "InvalidInput", !.ops = <<"seek">>],
              src |-> src]
        ELSE [c |-> [call EXCEPT !.res = "Ok", !.ret = got,
                                 !.buf = [j \in 1..n |->
                                             IF j <= got THEN PfsByte(pos + j - 1) ELSE buf[j]],
                                 !.ops = <<"seek", "read">>],
              src |-> [src EXCEPT !.pos = pos + got]]

\* PFS0::read_file(idx, offset, buf) in a build with (checks) or without
\* overflow checks. Every `+` of the code is a usize addition: it panics in
\* the first and wraps in the second. The source is a file: a seek above
\* i64::MAX fails, a read returns the bytes left.
PFS0_read_file(p, src, checks, idx, offset, buf) ==
    LET n       == Len(buf)
        call    == [NoPfsCall EXCEPT !.op = "read_file", !.idx = idx, !.offset = offset,
                                     !.len = n, !.buf = buf]
        entry   == p.file_entries[idx + 1]
        wrap(x) == x % (USIZE_MAX + 1)
        end     == offset + n
        base_offset      == (SizeOfHeader + (SizeOfFileEntry * p.header.file_count))
                                + p.header.string_table_size
        base_read_offset == wrap(base_offset) + entry.offset
        read_offset      == wrap(base_read_offset) + offset
        pos     == wrap(read_offset)
        left    == IF src.len > pos THEN src.len - pos ELSE 0
        got     == IF n < left THEN n ELSE left
    IN  IF idx >= Len(p.file_entries)
        THEN [c |-> [call EXCEPT !.res = "Err", !.err = "InvalidInput"], src |-> src]
        ELSE IF checks /\ end > USIZE_MAX
        THEN [c |-> [call EXCEPT !.res = "Panic"], src |-> src]
        ELSE IF wrap(end) > entry.size
        THEN [c |-> [call EXCEPT !.res = "Err", !.err = "UnexpectedEof"], src |-> src]
        ELSE IF checks /\ (base_offset > USIZE_MAX \/ base_read_offset > USIZE_MAX
                              \/ read_offset > USIZE_MAX)
        THEN [c |-> [call EXCEPT !.res = "Panic"], src |-> src]
        ELSE IF pos > USIZE_MAX \div 2
        THEN [c |-> [call EXCEPT !.res = "Err", !.err = "InvalidInput", !.ops = <<"seek">>],
              src |-> src]
        ELSE [c |-> [call EXCEPT !.res = "Ok", !.ret = got,
                                 !.buf = [j \in 1..n |->
                                             IF j <= got THEN PfsByte(pos + j - 1) ELSE buf[j]],
                                 !.ops = <<"seek", "read">>],
              src |-> [src EXCEPT !.pos = pos + got]]

NoImage == [magic |-> "", file_count |-> 0, string_table_size |-> 0, entries |-> << >>]

IdlePfs ==
    /\ pfs_src = [len |-> 0, pos |-> 0, img |-> NoImage]
    /\ pfs0 = NoPfs0
    /\ pfs_call = NoPfsCall
    /\ overflow_checks = FALSE

(***************************************************************************)
(* RomFS: names, paths and the name hash                                   *)
(***************************************************************************)

\* RomFs::INVALID_INFO_OFFSET (u32::MAX, kept as the i32 of the same bits) and
\* RomFs::ROOT_DIR_OFFSET
INVALID_INFO_OFFSET == 0 - 1
ROOT_DIR_OFFSET == 0

\* size_of of the three #[repr(C)] structures of romfs.rs
SizeOfRomFsHeader == 80
SizeOfDirectoryInfo == 24
SizeOfFileInfo == 32

\* Names and paths are strings kept as sequences of bytes; Slash is b'/'.
Slash == 47

\* path.split("/"): the segments between the slashes, at least one.
RECURSIVE Split(_)
Split(path) ==
    IF \A k \in 1..Len(path) : path[k] # Slash THEN <<path>>
    ELSE LET k == CHOOSE j \in 1..Len(path) :
                      path[j] = Slash /\ \A i \in 1..(j - 1) : path[i] # Slash
         IN  <<SubSeq(path, 1, k - 1)>> \o Split(SubSeq(path, k + 1, Len(path)))

\* The path of `name` inside the directory of path `dir` ("" is the root).
JoinPath(dir, name) == IF dir = << >> THEN name ELSE dir \o <<Slash>> \o name

\* A u32 of the hash is kept as its two 16-bit halves [hi, lo].
Half == 65536
U32Of(n) == [hi |-> n \div Half, lo |-> n % Half]

\* 123456789 = 0x075BCD15
HashSeed == [hi |-> 1883, lo |-> 52501]

\* a ^ b on u32
Xor32(a, b) == [hi |-> XorBits(a.hi, b.hi, 16), lo |-> XorBits(a.lo, b.lo, 16)]

\* (hash >> 5) | (hash << 27) on a u32
RotateRight5(hash) ==
    [hi |-> (hash.hi \div 32) + ((hash.lo % 32) * 2048),
     lo |-> (hash.lo \div 32) + ((hash.hi % 32) * 2048)]

\* The loop of compute_hash over the bytes of name.
RECURSIVE HashOf(_, _)
HashOf(hash, name) ==
    IF name = << >> THEN hash
    ELSE HashOf(Xor32(RotateRight5(hash), U32Of(name[1])), Tail(name))

\* RomFs::compute_hash(parent_offset, name, hash_table_count), hash_table_count > 0
compute_hash(parent_offset, name, hash_table_count) ==
    LET hash == HashOf(Xor32(U32Of(parent_offset), HashSeed), name)
    IN  (((hash.hi % hash_table_count) * (Half % hash_table_count)) + hash.lo)
            % hash_table_count

(***************************************************************************)
(* RomFS images                                                            *)
(*                                                                         *)
(* An image is laid out from a tree: dirs is the list of its directories   *)
(* other than the root, each [parent, name] with parent the number of an   *)
(* earlier directory (0 is the root); files is the list of its files, each *)
(* [parent, name, size]. The image holds the header, the two bucket        *)
(* tables, the two entry tables with the offset of every entry, and the    *)
(* file data, in this order, as the format lays them out.                  *)
(***************************************************************************)

\* Entry names are padded to 4 bytes.
Pad4(n) == ((n + 3) \div 4) * 4

\* The offset of the k-th entry of a table whose entries take `fixed` bytes plus the name.
RECURSIVE EntryOffset(_, _, _)
EntryOffset(entries, fixed, k) ==
    IF k = 1 THEN 0
    ELSE EntryOffset(entries, fixed, k - 1) + fixed + Pad4(Len(entries[k - 1].name))

\* The offset of the k-th file's data in the data region: the files' data lie back to back.
RECURSIVE DataOffset(_, _)
DataOffset(files, k) ==
    IF k = 1 THEN 0 ELSE DataOffset(files, k - 1) + files[k - 1].size

\* The entry offset of the first of the entries k+1..n that satisfies P, or the sentinel.
NextEntry(n, k, P(_), off(_)) ==
    IF \E j \in (k + 1)..n : P(j)
    THEN off(CHOOSE j \in (k + 1)..n : P(j) /\ \A i \in (k + 1)..(j - 1) : ~P(i))
    ELSE INVALID_INFO_OFFSET

\* The well-formed image of a tree with the given bucket counts.
BuildImage(tree, dir_buckets, file_buckets) ==
    LET ds       == <<[parent |-> 0, name |-> << >>]>> \o tree.dirs   \* ds[1] is the root
        fs       == tree.files
        nd       == Len(ds)
        nf       == Len(fs)
        doff(k)  == EntryOffset(ds, SizeOfDirectoryInfo, k)
        foff(k)  == EntryOffset(fs, SizeOfFileInfo, k)
        dhash(k) == compute_hash(doff(ds[k].parent + 1), ds[k].name, dir_buckets)
        fhash(k) == compute_hash(doff(fs[k].parent + 1), fs[k].name, file_buckets)
        dir_table_offset       == SizeOfRomFsHeader + (4 * dir_buckets)
        dir_table_size         == doff(nd + 1)
        file_hash_table_offset == dir_table_offset + dir_table_size
        file_table_offset      == file_hash_table_offset + (4 * file_buckets)
        file_table_size        == foff(nf + 1)
        file_data_offset       == file_table_offset + file_table_size
    IN  [header |->
            [header_size |-> SizeOfRomFsHeader,
             dir_hash_table_offset |-> SizeOfRomFsHeader,
             dir_hash_table_size |-> 4 * dir_buckets,
             dir_table_offset |-> dir_table_offset,
             dir_table_size |-> dir_table_size,
             file_hash_table_offset |-> file_hash_table_offset,
             file_hash_table_size |-> 4 * file_buckets,
             file_table_offset |-> file_table_offset,
             file_table_size |-> file_table_size,
             file_data_offset |-> file_data_offset],
         dir_hash_table |->
            [h \in 1..dir_buckets |-> NextEntry(nd, 0, LAMBDA j : dhash(j) = h - 1, doff)],
         dirs |->
            [k \in 1..nd |->
                [at |-> doff(k),
                 parent_dir_offset |-> doff(ds[k].parent + 1),
                 sibling_dir_offset |->
                    IF k = 1 THEN INVALID_INFO_OFFSET
                    ELSE NextEntry(nd, k, LAMBDA j : ds[j].parent = ds[k].parent, doff),
                 first_child_dir_offset |->
                    NextEntry(nd, 1, LAMBDA j : ds[j].parent = k - 1, doff),
                 first_child_file_offset |->
                    NextEntry(nf, 0, LAMBDA j : fs[j].parent = k - 1, foff),
                 next_dir_hash |-> NextEntry(nd, k, LAMBDA j : dhash(j) = dhash(k), doff),
                 name |-> ds[k].name]],
         file_hash_table |->
            [h \in 1..file_buckets |-> NextEntry(nf, 0, LAMBDA j : fhash(j) = h - 1, foff)],
         files |->
            [k \in 1..nf |->
                [at |-> foff(k),
                 parent_dir_offset |-> doff(fs[k].parent + 1),
                 sibling_file_offset |->
                    NextEntry(nf, k, LAMBDA j : fs[j].parent = fs[k].parent, foff),
                 data_offset |-> DataOffset(fs, k),
                 data_size |-> fs[k].size,
                 next_file_hash |-> NextEntry(nf, k, LAMBDA j : fhash(j) = fhash(k), foff),
                 name |-> fs[k].name]],
         full_len |-> file_data_offset + DataOffset(fs, nf + 1)]

\* The byte the source holds at position p of its file data.
RomByte(p) == ((p * 7) + 3) % 256

(***************************************************************************)
(* RomFS: the reader's source and the entry reads                          *)
(*                                                                         *)
(* The source is a file [len, pos] holding the first len bytes of an       *)
(* image. Every operation returns a record with res "Ok", "Err" (with      *)
(* err), "Panic" or "Hang" (the loop never ends) and the source after it.  *)
(***************************************************************************)

\* reader.seek(SeekFrom::Start(p)) on the file
SrcSeek(src, p) == [src EXCEPT !.pos = p]

\* reader.read_exact of n bytes from the position on: UnexpectedEof when the file ends first.
SrcReadExact(src, n) ==
    IF src.pos + n <= src.len
    THEN [ok |-> TRUE, src |-> [src EXCEPT !.pos = src.pos + n]]
    ELSE [ok |-> FALSE, src |-> [src EXCEPT !.pos = Max(src.pos, src.len)]]

RomErr(e, src) == [res |-> "Err", err |-> e, src |-> src]

\* Whether an entry of the table starts at this offset, and that entry.
HasEntry(entries, offset) == \E k \in 1..Len(entries) : entries[k].at = offset
EntryAt(entries, offset) == entries[CHOOSE k \in 1..Len(entries) : entries[k].at = offset]

\* The two table reads read_dir_info / read_file_info after their seek:
\* read_exact the fixed part, then (read_str) read_exact name_len bytes of name.
\* What is read is what the image holds at the source's position; `table` is
\* where the image has the table. The positions read here are entry starts,
\* and names are valid UTF-8, so from_utf8(..).unwrap() does not panic.
ReadInfo(entries, fixed, table, src, read_str) ==
    LET at == src.pos - table
        Named(e, s2) ==
            IF ~s2.ok THEN RomErr("UnexpectedEof", s2.src)
            ELSE [res |-> "Ok", err |-> "", info |-> e, name |-> e.name, src |-> s2.src]
        Entry(e, s1) ==
            IF ~read_str
            THEN [res |-> "Ok", err |-> "", info |-> e, name |-> << >>, src |-> s1.src]
            ELSE Named(e, SrcReadExact(s1.src, Len(e.name)))
        Fixed(s1) ==
            IF ~s1.ok \/ ~HasEntry(entries, at) THEN RomErr("UnexpectedEof", s1.src)
            ELSE Entry(EntryAt(entries, at), s1)
    IN  Fixed(SrcReadExact(src, fixed))

read_dir_info(img, src, dir_table_offset, offset, read_str) ==
    ReadInfo(img.dirs, SizeOfDirectoryInfo, img.header.dir_table_offset,
             SrcSeek(src, dir_table_offset + offset), read_str)

read_file_info(img, src, file_table_offset, offset, read_str) ==
    ReadInfo(img.files, SizeOfFileInfo, img.header.file_table_offset,
             SrcSeek(src, file_table_offset + offset), read_str)

\* RomFs::read_dir_offset / read_file_offset after their seek: the u32 the image
\* holds at the source's position, a slot of the bucket table at `table`.
ReadBucket(buckets, table, src) ==
    LET slot == (src.pos - table) \div 4
        Slot(s1) ==
            IF ~s1.ok \/ slot < 0 \/ slot >= Len(buckets) THEN RomErr("UnexpectedEof", s1.src)
            ELSE [res |-> "Ok", err |-> "", off |-> buckets[slot + 1], src |-> s1.src]
    IN  Slot(SrcReadExact(src, 4))

read_dir_offset(h, img, src, hash) ==
    ReadBucket(img.dir_hash_table, img.header.dir_hash_table_offset,
               SrcSeek(src, h.dir_hash_table_offset + (hash * 4)))

read_file_offset(h, img, src, hash) ==
    ReadBucket(img.file_hash_table, img.header.file_hash_table_offset,
               SrcSeek(src, h.file_hash_table_offset + (hash * 4)))

\* The `while cur_dir_offset != INVALID_INFO_OFFSET` loop of find_dir_offset from
\* cur on. The loop's state is cur alone: a cur met again is a loop without end.
RECURSIVE DirChainWalk(_, _, _, _, _, _, _)
DirChainWalk(h, img, src, parent_dir_offset, name, cur_dir_offset, met) ==
    LET Entry(r) ==
            IF r.res # "Ok" THEN RomErr(r.err, r.src)
            ELSE IF r.info.parent_dir_offset = parent_dir_offset /\ r.name = name
            THEN [res |-> "Ok", err |-> "", off |-> cur_dir_offset, src |-> r.src]
            ELSE DirChainWalk(h, img, r.src, parent_dir_offset, name,
                              r.info.next_dir_hash, met \cup {cur_dir_offset})
    IN  IF cur_dir_offset = INVALID_INFO_OFFSET THEN RomErr("NotFound", src)
        ELSE IF cur_dir_offset \in met THEN [res |-> "Hang", err |-> "", src |-> src]
        ELSE Entry(read_dir_info(img, src, h.dir_table_offset, cur_dir_offset, TRUE))

\* RomFs::find_dir_offset(parent_dir_offset, name)
find_dir_offset(h, img, src, parent_dir_offset, name) ==
    LET count == h.dir_hash_table_size \div 4
        Chain(first) ==
            IF first.res # "Ok" THEN first
            ELSE DirChainWalk(h, img, first.src, parent_dir_offset, name, first.off, {})
    IN  IF count = 0 THEN [res |-> "Panic", err |-> "", src |-> src]    \* hash % 0
        ELSE Chain(read_dir_offset(h, img, src,
                                   compute_hash(parent_dir_offset, name, count)))

\* The loop of find_file_info matching the name alone, whatever the parent.
RECURSIVE FileChainWalk_NameOnly(_, _, _, _, _, _, _)
FileChainWalk_NameOnly(h, img, src, parent_dir_offset, name, cur_file_offset, met) ==
    LET Entry(r) ==
            IF r.res # "Ok" THEN RomErr(r.err, r.src)
            ELSE IF r.name = name
            THEN [res |-> "Ok", err |-> "", info |-> r.info, src |-> r.src]
            ELSE FileChainWalk_NameOnly(h, img, r.src, parent_dir_offset, name,
                                        r.info.next_file_hash, met \cup {cur_file_offset})
    IN  IF cur_file_offset = INVALID_INFO_OFFSET THEN RomErr("NotFound", src)
        ELSE IF cur_file_offset \in met THEN [res |-> "Hang", err |-> "", src |-> src]
        ELSE Entry(read_file_info(img, src, h.file_table_offset, cur_file_offset, TRUE))

\* The loop of find_file_info from cur on.
RECURSIVE FileChainWalk(_, _, _, _, _, _, _)
FileChainWalk(h, img, src, parent_dir_offset, name, cur_file_offset, met) ==
    LET Entry(r) ==
            IF r.res # "Ok" THEN RomErr(r.err, r.src)
            ELSE IF r.info.parent_dir_offset = parent_dir_offset /\ r.name = name
            THEN [res |-> "Ok", err |-> "", info |-> r.info, src |-> r.src]
            ELSE FileChainWalk(h, img, r.src, parent_dir_offset, name,
                               r.info.next_file_hash, met \cup {cur_file_offset})
    IN  IF cur_file_offset = INVALID_INFO_OFFSET THEN RomErr("NotFound", src)
        ELSE IF cur_file_offset \in met THEN [res |-> "Hang", err |-> "", src |-> src]
        ELSE Entry(read_file_info(img, src, h.file_table_offset, cur_file_offset, TRUE))

\* RomFs::find_file_info(parent_dir_offset, name)
find_file_info(h, img, src, parent_dir_offset, name) ==
    LET count == h.file_hash_table_size \div 4
        Chain(first) ==
            IF first.res # "Ok" THEN first
            ELSE FileChainWalk(h, img, first.src, parent_dir_offset, name, first.off, {})
    IN  IF count = 0 THEN [res |-> "Panic", err |-> "", src |-> src]    \* hash % 0
        ELSE Chain(read_file_offset(h, img, src,
                                    compute_hash(parent_dir_offset, name, count)))

\* `for dir_item in path_items { cur_dir_offset = find_dir_offset(..)? }`
RECURSIVE WalkDirs(_, _, _, _, _)
WalkDirs(h, img, src, cur_dir_offset, path_items) ==
    LET Found(r) ==
            IF r.res # "Ok" THEN r
            ELSE WalkDirs(h, img, r.src, r.off, Tail(path_items))
    IN  IF path_items = << >>
        THEN [res |-> "Ok", err |-> "", off |-> cur_dir_offset, src |-> src]
        ELSE Found(find_dir_offset(h, img, src, cur_dir_offset, path_items[1]))

\* RomFs::find_file(path)
find_file(h, img, src, path) ==
    LET InDir(items, d) ==
            IF d.res # "Ok" THEN d
            ELSE find_file_info(h, img, d.src, d.off, items[Len(items)])
        Items(items) ==
            InDir(items, WalkDirs(h, img, src, ROOT_DIR_OFFSET,
                                  SubSeq(items, 1, Len(items) - 1)))
    IN  Items(Split(path))

\* RomFs::find_dir(path)
find_dir(h, img, src, path) ==
    LET Info(r) ==
            IF r.res # "Ok" THEN RomErr(r.err, r.src)
            ELSE [res |-> "Ok", err |-> "", info |-> r.info, src |-> r.src]
        Dir(d) ==
            IF d.res # "Ok" THEN d
            ELSE Info(read_dir_info(img, d.src, h.dir_table_offset, d.off, FALSE))
    IN  Dir(WalkDirs(h, img, src, ROOT_DIR_OFFSET, Split(path)))

(***************************************************************************)
(* RomFS: the public operations                                            *)
(***************************************************************************)

NoRomFs == [state |-> "none", err |-> "", header |-> [header_size |-> 0]]

\* RomFs::new(reader): read_exact of the header at the reader's position.
RomFs_new(img, src) ==
    LET Header(s1) ==
            IF ~s1.ok THEN [fs |-> [NoRomFs EXCEPT !.state = "Err", !.err = "UnexpectedEof"],
                            src |-> s1.src]
            ELSE [fs |-> [state |-> "Ok", err |-> "", header |-> img.header], src |-> s1.src]
    IN  Header(SrcReadExact(src, SizeOfRomFsHeader))

\* What a call leaves for its caller: res, the error, the value returned, the buffer.
RomRet(res, err, ret, buf, src) ==
    [res |-> res, err |-> err, ret |-> ret, buf |-> buf, src |-> src]

\* x.is_ok() of a lookup's result
IsOk(r) ==
    IF r.res \in {"Hang", "Panic"} THEN RomRet(r.res, "", FALSE, << >>, r.src)
    ELSE RomRet("Ok", "", r.res = "Ok", << >>, r.src)

\* exists_file with the body of exists_dir.
exists_file_AsDir(h, img, src, path) == IsOk(find_dir(h, img, src, path))

\* RomFs::exists_file(path): find_file(path).is_ok()
exists_file(h, img, src, path) == IsOk(find_file(h, img, src, path))

\* RomFs::exists_dir(path): find_dir(path).is_ok()
exists_dir(h, img, src, path) == IsOk(find_dir(h, img, src, path))

\* get_file_size with the body of get_file_offset.
get_file_size_AsOffset(h, img, src, path) ==
    LET Offset(r) ==
            IF r.res # "Ok" THEN RomRet(r.res, r.err, -1, << >>, r.src)
            ELSE RomRet("Ok", "", r.info.data_offset, << >>, r.src)
    IN  Offset(find_file(h, img, src, path))

\* RomFs::get_file_size(path)
get_file_size(h, img, src, path) ==
    LET Size(r) ==
            IF r.res # "Ok" THEN RomRet(r.res, r.err, -1, << >>, r.src)
            ELSE RomRet("Ok", "", r.info.data_size, << >>, r.src)
    IN  Size(find_file(h, img, src, path))

\* RomFs::get_file_offset(path)
get_file_offset(h, img, src, path) ==
    LET Offset(r) ==
            IF r.res # "Ok" THEN RomRet(r.res, r.err, -1, << >>, r.src)
            ELSE RomRet("Ok", "", r.info.data_offset, << >>, r.src)
    IN  Offset(find_file(h, img, src, path))

\* RomFs::read_file_by_offset(file_offset, offset, buf): seek, then one read
\* of the file source, which returns the bytes left, at most buf.len().
read_file_by_offset(h, img, src, file_offset, offset, buf) ==
    LET file_data_offset == h.file_data_offset + file_offset
        read_offset      == file_data_offset + offset
        n    == Len(buf)
        left == IF src.len > read_offset THEN src.len - read_offset ELSE 0
        got  == IF n < left THEN n ELSE left
    IN  RomRet("Ok", "", got,
               [j \in 1..n |-> IF j <= got THEN RomByte(read_offset + (j - 1)) ELSE buf[j]],
               [src EXCEPT !.pos = read_offset + got])

\* RomFs::read_file(path, offset, buf)
read_file(h, img, src, path, offset, buf) ==
    LET At(r) ==
            IF r.res # "Ok" THEN RomRet(r.res, r.err, -1, buf, r.src)
            ELSE read_file_by_offset(h, img, r.src, r.ret, offset, buf)
    IN  At(get_file_offset(h, img, src, path))

\* The sibling loops of open_dir_iterator from cur on: the offsets pushed so far
\* are acc. A chain that comes back to an offset never reaches the sentinel.
RECURSIVE ChildDirs(_, _, _, _, _)
ChildDirs(h, img, src, cur_child_dir_offset, acc) ==
    LET Entry(r) ==
            IF r.res # "Ok" THEN RomErr(r.err, r.src)
            ELSE ChildDirs(h, img, r.src, r.info.sibling_dir_offset,
                           Append(acc, cur_child_dir_offset))
    IN  IF cur_child_dir_offset = INVALID_INFO_OFFSET
        THEN [res |-> "Ok", err |-> "", offsets |-> acc, src |-> src]
        ELSE IF \E k \in 1..Len(acc) : acc[k] = cur_child_dir_offset
        THEN [res |-> "Hang", err |-> "", src |-> src]
        ELSE Entry(read_dir_info(img, src, h.dir_table_offset, cur_child_dir_offset, FALSE))

RECURSIVE ChildFiles(_, _, _, _, _)
ChildFiles(h, img, src, cur_child_file_offset, acc) ==
    LET Entry(r) ==
            IF r.res # "Ok" THEN RomErr(r.err, r.src)
            ELSE ChildFiles(h, img, r.src, r.info.sibling_file_offset,
                            Append(acc, cur_child_file_offset))
    IN  IF cur_child_file_offset = INVALID_INFO_OFFSET
        THEN [res |-> "Ok", err |-> "", offsets |-> acc, src |-> src]
        ELSE IF \E k \in 1..Len(acc) : acc[k] = cur_child_file_offset
        THEN [res |-> "Hang", err |-> "", src |-> src]
        ELSE Entry(read_file_info(img, src, h.file_table_offset, cur_child_file_offset,
                                  FALSE))

NoIter ==
    [open |-> FALSE, dir_table_offset |-> 0, file_table_offset |-> 0,
     dir_offsets |-> << >>, file_offsets |-> << >>, cur_dir_idx |-> 0, cur_file_idx |-> 0]

\* RomFsDirectoryIterator::new
RomFsDirectoryIterator_new(dir_table_offset, file_table_offset, dir_offsets, file_offsets) ==
    [open |-> TRUE, dir_table_offset |-> dir_table_offset,
     file_table_offset |-> file_table_offset,
     dir_offsets |-> dir_offsets, file_offsets |-> file_offsets,
     cur_dir_idx |-> 0, cur_file_idx |-> 0]

\* RomFs::open_dir_iterator(path)
open_dir_iterator(h, img, src, path) ==
    LET Files(cd, cf) ==
            IF cf.res # "Ok" THEN cf
            ELSE [res |-> "Ok", err |-> "", src |-> cf.src,
                  it |-> RomFsDirectoryIterator_new(h.dir_table_offset, h.file_table_offset,
                                                    cd.offsets, cf.offsets)]
        Dirs(d, cd) ==
            IF cd.res # "Ok" THEN cd
            ELSE Files(cd, ChildFiles(h, img, cd.src, d.info.first_child_file_offset, << >>))
        Dir(d) ==
            IF d.res # "Ok" THEN d
            ELSE Dirs(d, ChildDirs(h, img, d.src, d.info.first_child_dir_offset, << >>))
    IN  Dir(find_dir(h, img, src, path))

\* rewind_dirs that puts both cursors back.
rewind_dirs_Both(it) == [it EXCEPT !.cur_dir_idx = 0, !.cur_file_idx = 0]

\* RomFsDirectoryIterator::rewind_dirs / rewind_files
rewind_dirs(it) == [it EXCEPT !.cur_dir_idx = 0]
rewind_files(it) == [it EXCEPT !.cur_file_idx = 0]

\* RomFsDirectoryIterator::get_dir_count / get_file_count
get_dir_count(it) == Len(it.dir_offsets)
get_file_count(it) == Len(it.file_offsets)

\* RomFsDirectoryIterator::next_dir: ret is the name.
next_dir(it, img, src) ==
    LET Entry(r) ==
            IF r.res # "Ok"
            THEN [res |-> "Err", err |-> r.err, ret |-> << >>, it |-> it, src |-> r.src]
            ELSE [res |-> "Ok", err |-> "", ret |-> r.name,
                  it |-> [it EXCEPT !.cur_dir_idx = it.cur_dir_idx + 1], src |-> r.src]
    IN  IF it.cur_dir_idx = Len(it.dir_offsets)
        THEN [res |-> "Err", err |-> "UnexpectedEof", ret |-> << >>, it |-> it, src |-> src]
        ELSE Entry(read_dir_info(img, src, it.dir_table_offset,
                                 it.dir_offsets[it.cur_dir_idx + 1], TRUE))

\* next_file that steps the cursor also when the entry could not be read.
next_file_AlwaysSteps(it, img, src) ==
    LET stepped == [it EXCEPT !.cur_file_idx = it.cur_file_idx + 1]
        Entry(r) ==
            IF r.res # "Ok"
            THEN [res |-> "Err", err |-> r.err, ret |-> << >>, it |-> stepped, src |-> r.src]
            ELSE [res |-> "Ok", err |-> "", ret |-> <<r.name, r.info.data_size>>,
                  it |-> stepped, src |-> r.src]
    IN  IF it.cur_file_idx = Len(it.file_offsets)
        THEN [res |-> "Err", err |-> "UnexpectedEof", ret |-> << >>, it |-> it, src |-> src]
        ELSE Entry(read_file_info(img, src, it.file_table_offset,
                                  it.file_offsets[it.cur_file_idx + 1], TRUE))

\* RomFsDirectoryIterator::next_file: ret is (name, data_size).
next_file(it, img, src) ==
    LET Entry(r) ==
            IF r.res # "Ok"
            THEN [res |-> "Err", err |-> r.err, ret |-> << >>, it |-> it, src |-> r.src]
            ELSE [res |-> "Ok", err |-> "", ret |-> <<r.name, r.info.data_size>>,
                  it |-> [it EXCEPT !.cur_file_idx = it.cur_file_idx + 1], src |-> r.src]
    IN  IF it.cur_file_idx = Len(it.file_offsets)
        THEN [res |-> "Err", err |-> "UnexpectedEof", ret |-> << >>, it |-> it, src |-> src]
        ELSE Entry(read_file_info(img, src, it.file_table_offset,
                                  it.file_offsets[it.cur_file_idx + 1], TRUE))

NoRomCall ==
    [op |-> "none", path |-> << >>, offset |-> -1, len |-> -1, res |-> "none", err |-> "",
     ret |-> -1, buf |-> << >>, before |-> -1]

NoIterator == [it |-> NoIter, path |-> << >>, from_root |-> FALSE, reported |-> << >>]

NoWalk ==
    [state |-> "idle", kind |-> "", parent |-> 0, name |-> << >>, cur |-> 0, next |-> 0,
     res |-> ""]

NoRomImage == [header |-> [header_size |-> 0], full_len |-> 0]

IdleRom ==
    /\ romfs_img = NoRomImage
    /\ romfs_src = [len |-> 0, pos |-> 0]
    /\ romfs = NoRomFs
    /\ romfs_call = NoRomCall
    /\ iter = NoIterator
    /\ walk = NoWalk

IdleNca ==
    /\ key_lines = << >>
    /\ keyset = EmptyKeyset
    /\ nca = NoNca
    /\ opened = NoOpen
    /\ crashed = FALSE

IdleCtr ==
    /\ base = [len |-> 0, pos |-> 0]
    /\ rd = [w \in Readers |-> NoReader]
    /\ fresh = -1
    /\ run = NoRun
    /\ last = NoLast

InitCtr ==
    /\ base \in [len : BaseLens, pos : {0}]
    /\ rd = [w \in Readers |-> NoReader]
    /\ fresh = -1
    /\ run = NoRun
    /\ last = NoLast
    /\ IdleNca
    /\ IdlePfs
    /\ IdleRom

\* A wrapper is constructed over the shared base.
CtrNew(w) ==
    /\ ~rd[w].made
    /\ \E bo \in BaseOffsets :
          LET n == Aes128CtrReader_new(base, bo, CtrOf[w], CtrKey)
          IN  /\ rd' = [rd EXCEPT ![w] = n.r]
              /\ base' = n.b
    /\ run' = NoRun
    /\ last' = NoLast
    /\ UNCHANGED <<fresh, ncaVars, pfsVars, romVars>>

\* wrapper.seek(pos); the own offset stays within the bounds of the model.
CtrSeek(w) ==
    /\ rd[w].made
    /\ \E pos \in SeekInputs(w) :
          LET s == Aes128CtrReader_seek(rd[w], base, pos)
          IN  /\ s.r.offset \in (0 - BLOCK)..(MaxBaseLen + BLOCK)
              /\ rd' = [rd EXCEPT ![w] = s.r]
              /\ base' = s.b
              /\ fresh' = IF w # "A" THEN fresh
                          ELSE IF pos.kind = "Start" /\ s.ok THEN pos.val ELSE -1
              /\ run' = IF w = "A" /\ pos.kind = "Start" /\ s.ok
                        THEN [w |-> w, start |-> pos.val, out |-> << >>]
                        ELSE NoRun
    /\ last' = NoLast
    /\ UNCHANGED <<ncaVars, pfsVars, romVars>>

\* wrapper.read(buf) with buf.len() = n
CtrRead(w) ==
    /\ rd[w].made
    /\ rd[w].offset \in 0..MaxBaseLen
    /\ base.pos <= MaxBaseLen
    /\ \E n \in (IF w = "A" THEN ReadLens ELSE {1}) :
          LET x == Aes128CtrReader_read(rd[w], base, n)
          IN  /\ run.w = w => Len(run.out) + n <= MaxRun
              /\ rd' = [rd EXCEPT ![w] = x.r]
              /\ base' = x.b
              /\ last' = IF w = "A" /\ fresh >= 0
                         THEN [w |-> w, P |-> fresh, n |-> n, res |-> x.res, out |-> x.out]
                         ELSE NoLast
              /\ run' = IF run.w = w /\ x.res = "Ok"
                        THEN [run EXCEPT !.out = run.out \o x.out]
                        ELSE NoRun
              /\ fresh' = IF w = "A" THEN -1 ELSE fresh
    /\ UNCHANGED <<ncaVars, pfsVars, romVars>>

NextCtr == \E w \in Readers : CtrNew(w) \/ CtrSeek(w) \/ CtrRead(w)

SpecCtr == InitCtr /\ [][NextCtr]_vars

(***************************************************************************)
(* SpecKeys: the key file is consumed line by line, then NCA::new runs.    *)
(***************************************************************************)

\* Input bounds of SpecKeys. Lines are well formed (one "=", hex of the right
\* length): the panics of Keyset::from on other lines are left out.
MaxKeyLines == 2
MaxKeyGen == 2
HexIdx == {<<0, 0>>, <<0, 1>>}
KeyValues == {1, 2}
HeaderKeyValue == 9
KeyLineInputs ==
    [name : [base : {"key_area_key_application_", "key_area_key_ocean_",
                     "key_area_key_system_"},
             hh : HexIdx],
     value : KeyValues]
        \cup {[name |-> [base |-> "header_key", hh |-> << >>], value |-> HeaderKeyValue]}
        \cup {[name |-> [base |-> "unknown_key_", hh |-> <<0, 0>>], value |-> 1]}

\* A zeroed fs header: RomFs = 0, Auto = 0.
ZeroFsHeader ==
    [fs_type |-> "RomFs", encryption_type |-> "Auto", ctr |-> 0,
     pfs0_offset |-> 0, ivfc_last_level_offset |-> 0]

EncryptedKeyArea == 77

\* Decrypted headers of SpecKeys: the key fields vary, no section is present.
KeyHeaders ==
    [magic : {"NCA3", "NCA2"},
     key_generation_old : 0..MaxKeyGen,
     key_generation : 0..MaxKeyGen,
     key_area_encryption_key_index : KeyAreaEncryptionKeyIndex,
     fs_entries : {[i \in 1..MAX_FILESYSTEM_COUNT |-> [start_offset |-> 0]]},
     encrypted_key_area : {EncryptedKeyArea}]

InitKeys ==
    /\ key_lines = << >>
    /\ keyset = EmptyKeyset
    /\ nca = NoNca
    /\ opened = NoOpen
    /\ crashed = FALSE
    /\ IdleCtr
    /\ IdlePfs
    /\ IdleRom

\* Keyset::from consumes one more line of the key file.
KeysetLine ==
    /\ ~crashed
    /\ nca.state = "none"
    /\ Len(key_lines) < MaxKeyLines
    /\ \E line \in KeyLineInputs :
          /\ key_lines' = Append(key_lines, line)
          /\ keyset' = Keyset_line(keyset, line)
    /\ UNCHANGED <<nca, opened, crashed, ctrVars, pfsVars, romVars>>

\* NCA::new(reader, keyset) over a source that decrypts to one of KeyHeaders.
NcaNewKeys ==
    /\ ~crashed
    /\ nca.state = "none"
    /\ \E header \in KeyHeaders, complete \in BOOLEAN :
          /\ nca' = NCA_new(keyset, header,
                            [i \in 1..MAX_FILESYSTEM_COUNT |-> ZeroFsHeader], complete)
          /\ crashed' = (nca'.state = "Panic")
    /\ UNCHANGED <<key_lines, keyset, opened, ctrVars, pfsVars, romVars>>

NextKeys == KeysetLine \/ NcaNewKeys

SpecKeys == InitKeys /\ [][NextKeys]_vars

(***************************************************************************)
(* SpecNca: NCA::new over varied section tables, then the open calls.      *)
(***************************************************************************)

\* Input bounds of SpecNca: at most MaxPresent of the four slots hold a section.
MaxPresent == 3

\* The start_offset (in media units) of the section of slot i, one per slot.
StartOf(i) == 4 + (2 * i)

PresentFsHeaders(i) ==
    [fs_type : FileSystemType, encryption_type : EncryptionType, ctr : {10 * i},
     pfs0_offset : {32}, ivfc_last_level_offset : {64}]

AbsentFsHeaders ==
    {ZeroFsHeader,
     [fs_type |-> "PartitionFs", encryption_type |-> "AesCtr", ctr |-> 1,
      pfs0_offset |-> 32, ivfc_last_level_offset |-> 64]}

SlotChoices(i) ==
    [present : {TRUE}, h : PresentFsHeaders(i)] \cup [present : {FALSE}, h : AbsentFsHeaders]

SectionTables ==
    {t \in SlotChoices(1) \X SlotChoices(2) \X SlotChoices(3) \X SlotChoices(4) :
        Cardinality({i \in 1..MAX_FILESYSTEM_COUNT : t[i].present}) <= MaxPresent}

SectionHeader(t) ==
    [magic |-> "NCA3", key_generation_old |-> 0, key_generation |-> 0,
     key_area_encryption_key_index |-> "Application",
     fs_entries |-> [i \in 1..MAX_FILESYSTEM_COUNT |->
                        [start_offset |-> IF t[i].present THEN StartOf(i) ELSE 0]],
     encrypted_key_area |-> EncryptedKeyArea]

\* The key file of SpecNca: key_area_key_application_00 alone.
GoodKeyFile ==
    << [name |-> [base |-> "key_area_key_application_", hh |-> <<0, 0>>], value |-> 1] >>

\* The outcomes of PFS0::new and RomFs::new over a section reader. The CTR
\* reader fills every buffer, so PFS0::new fails on the magic alone and
\* RomFs::new (which checks nothing) succeeds.
FsOk == [res |-> "Ok", err |-> "", msg |-> ""]
Pfs0NewOutcomes == {FsOk, [res |-> "Err", err |-> "InvalidInput", msg |-> "Invalid PFS0 magic"]}
RomFsNewOutcomes == {FsOk}

InitNca ==
    /\ key_lines = GoodKeyFile
    /\ keyset = Keyset_from(GoodKeyFile)
    /\ nca = NoNca
    /\ opened = NoOpen
    /\ crashed = FALSE
    /\ IdleCtr
    /\ IdlePfs
    /\ IdleRom

\* NCA::new(reader, keyset) over a source with one of SectionTables.
NcaNewSections ==
    /\ ~crashed
    /\ nca.state = "none"
    /\ \E t \in SectionTables :
          /\ nca' = NCA_new(keyset, SectionHeader(t),
                            [i \in 1..MAX_FILESYSTEM_COUNT |-> t[i].h], TRUE)
          /\ crashed' = (nca'.state = "Panic")
    /\ UNCHANGED <<key_lines, keyset, opened, ctrVars, pfsVars, romVars>>

\* nca.open_pfs0_filesystem(idx)
OpenPfs0 ==
    /\ ~crashed
    /\ nca.state = "Ok"
    /\ \E idx \in 0..MAX_FILESYSTEM_COUNT, fs_new \in Pfs0NewOutcomes :
          /\ opened' = open_pfs0_filesystem(nca, idx, fs_new)
          /\ crashed' = (opened'.res = "Panic")
    /\ UNCHANGED <<key_lines, keyset, nca, ctrVars, pfsVars, romVars>>

\* nca.open_romfs_filesystem(idx)
OpenRomfs ==
    /\ ~crashed
    /\ nca.state = "Ok"
    /\ \E idx \in 0..MAX_FILESYSTEM_COUNT, fs_new \in RomFsNewOutcomes :
          /\ opened' = open_romfs_filesystem(nca, idx, fs_new)
          /\ crashed' = (opened'.res = "Panic")
    /\ UNCHANGED <<key_lines, keyset, nca, ctrVars, pfsVars, romVars>>

NextNca == NcaNewSections \/ OpenPfs0 \/ OpenRomfs

SpecNca == InitNca /\ [][NextNca]_vars

(***************************************************************************)
(* SpecPfs0: PFS0::new over a file, then get_file_size and read_file.      *)
(***************************************************************************)

\* Input bounds of SpecPfs0.
MaxFiles == 2
EntryOffsets == {0, 2}
FileSizes == {0, 2}
StringTableSizes == {0, 4}
BufLens == {0, 1, 2}
FileEntries == [offset : EntryOffsets, size : FileSizes]

RECURSIVE SeqsUpTo(_, _)
SeqsUpTo(S, n) ==
    IF n = 0 THEN {<< >>}
    ELSE LET shorter == SeqsUpTo(S, n - 1)
         IN  shorter \cup {Append(q, x) : q \in {r \in shorter : Len(r) = n - 1}, x \in S}

\* Where the data of the image's files ends, counted from the data base.
RECURSIVE DataEnd(_)
DataEnd(entries) ==
    IF entries = << >> THEN 0
    ELSE LET rest == DataEnd(Tail(entries))
             mine == entries[1].offset + entries[1].size
         IN  IF mine > rest THEN mine ELSE rest

\* The sources: a PFS0 image of up to MaxFiles files, whole or cut short by Cut bytes.
Cuts == {0, 1}
PfsSources ==
    {[len |-> (((SizeOfHeader + (SizeOfFileEntry * Len(es))) + sts) + DataEnd(es)) - cut,
      pos |-> 0,
      img |-> [magic |-> m, file_count |-> Len(es), string_table_size |-> sts, entries |-> es]] :
        m \in {PFS0_MAGIC, "HFS0"}, es \in SeqsUpTo(FileEntries, MaxFiles),
        sts \in StringTableSizes, cut \in Cuts}

\* The caller's buffer before a call: n bytes of a fill pattern.
BufFill == 170
FreshBuf(n) == [j \in 1..n |-> BufFill]
ReadOffsets == {0, 1, USIZE_MAX}

InitPfs0 ==
    /\ pfs_src \in PfsSources
    /\ pfs0 = NoPfs0
    /\ pfs_call = NoPfsCall
    /\ overflow_checks \in BOOLEAN
    /\ crashed = FALSE
    /\ key_lines = << >>
    /\ keyset = EmptyKeyset
    /\ nca = NoNca
    /\ opened = NoOpen
    /\ IdleCtr
    /\ IdleRom

\* PFS0::new(reader)
Pfs0New ==
    /\ ~crashed
    /\ pfs0.state = "none"
    /\ LET x == PFS0_new(pfs_src)
       IN  /\ pfs0' = x.p
           /\ pfs_src' = x.src
    /\ pfs_call' = NoPfsCall
    /\ UNCHANGED <<overflow_checks, ctrVars, ncaVars, romVars>>

\* pfs0.get_file_size(idx)
Pfs0GetFileSize ==
    /\ ~crashed
    /\ pfs0.state = "Ok"
    /\ \E idx \in 0..MaxFiles : pfs_call' = PFS0_get_file_size(pfs0, idx)
    /\ UNCHANGED <<pfs_src, pfs0, overflow_checks, ctrVars, ncaVars, romVars>>

\* pfs0.read_file(idx, offset, buf)
Pfs0ReadFile ==
    /\ ~crashed
    /\ pfs0.state = "Ok"
    /\ \E idx \in 0..MaxFiles, offset \in ReadOffsets, n \in BufLens :
          LET x == PFS0_read_file(pfs0, pfs_src, overflow_checks, idx, offset, FreshBuf(n))
          IN  /\ pfs_call' = x.c
              /\ pfs_src' = x.src
              /\ crashed' = (x.c.res = "Panic")
    /\ UNCHANGED <<pfs0, overflow_checks, key_lines, keyset, nca, opened, ctrVars, romVars>>

NextPfs0 == Pfs0New \/ Pfs0GetFileSize \/ Pfs0ReadFile

SpecPfs0 == InitPfs0 /\ [][NextPfs0]_vars

(***************************************************************************)
(* SpecRomFs: RomFs::new over a file, then lookups and reads by path.      *)
(***************************************************************************)

\* Input bounds of the RomFS specifications: images of the trees over two
\* directory names and two file names with at most MaxRomFiles files, laid out
\* with one or two hash buckets, whole or cut short.
MaxRomFiles == 2
NameA == <<97>>
NameB == <<98>>
NameQ == <<113>>
NameR == <<114>>
DirShapes ==
    { << >>,
      <<[parent |-> 0, name |-> NameQ], [parent |-> 0, name |-> NameR]>>,
      <<[parent |-> 0, name |-> NameQ], [parent |-> 1, name |-> NameR]>> }
RomBuckets == {1, 2}

\* A file of a tree: the directory it is in, its name, and a size that tells the places apart.
FilePlaces(dirs) ==
    {[parent |-> d, name |-> n, size |-> d + (IF n = NameA THEN 1 ELSE 2)] :
        d \in 0..Len(dirs), n \in {NameA, NameB}}
PlaceKey(f) == (2 * f.parent) + (IF f.name = NameA THEN 0 ELSE 1)

\* The files of a set in the order of their directories.
RECURSIVE InOrder(_)
InOrder(S) ==
    IF S = {} THEN << >>
    ELSE LET f == CHOOSE x \in S : \A y \in S : PlaceKey(x) <= PlaceKey(y)
         IN  <<f>> \o InOrder(S \ {f})

RomTrees ==
    UNION {{[dirs |-> ds, files |-> InOrder(S)] :
                S \in {T \in SUBSET FilePlaces(ds) : Cardinality(T) <= MaxRomFiles}} :
           ds \in DirShapes}

RomImages == {BuildImage(t, b, b) : t \in RomTrees, b \in RomBuckets}

\* The lengths of the sources of an image: the whole image, and the image up to
\* the name of its last file entry.
RomSrcLens(img) ==
    {img.full_len}
    \cup (IF img.files # << >>
          THEN {(img.header.file_table_offset + img.files[Len(img.files)].at) + SizeOfFileInfo}
          ELSE {})

\* The paths of the calls.
DirPaths == {<< >>, NameQ, NameA}
FilePaths ==
    {NameA, NameB, JoinPath(NameQ, NameA), JoinPath(NameQ, NameB), JoinPath(NameR, NameA),
     JoinPath(JoinPath(NameQ, NameR), NameA), NameQ}
RomReads == {<<0, 1>>, <<0, 2>>, <<1, 1>>}

\* The caller's buffer before a read.
RomBufFill == 85
RomFreshBuf(n) == [j \in 1..n |-> RomBufFill]

InitRomFs ==
    /\ romfs_img \in RomImages
    /\ \E n \in RomSrcLens(romfs_img) : romfs_src = [len |-> n, pos |-> 0]
    /\ romfs = NoRomFs
    /\ romfs_call = NoRomCall
    /\ iter = NoIterator
    /\ walk = NoWalk
    /\ crashed = FALSE
    /\ key_lines = << >>
    /\ keyset = EmptyKeyset
    /\ nca = NoNca
    /\ opened = NoOpen
    /\ IdleCtr
    /\ IdlePfs

\* A call on the RomFs can be made: it was built, and no call has hung or panicked.
RomReady ==
    /\ romfs.state = "Ok"
    /\ romfs_call.res \notin {"Hang", "Panic"}

RomCall(op, path, r) ==
    [NoRomCall EXCEPT !.op = op, !.path = path, !.res = r.res, !.err = r.err, !.ret = r.ret,
                      !.buf = r.buf]

\* RomFs::new(reader)
RomFsNew ==
    /\ romfs.state = "none"
    /\ \E x \in {RomFs_new(romfs_img, romfs_src)} :
          /\ romfs' = x.fs
          /\ romfs_src' = x.src
    /\ romfs_call' = NoRomCall
    /\ UNCHANGED <<romfs_img, iter, walk, ctrVars, ncaVars, pfsVars>>

\* romfs.exists_file(path)
RomExistsFile ==
    /\ RomReady
    /\ \E path \in FilePaths :
          \E r \in {exists_file(romfs.header, romfs_img, romfs_src, path)} :
              /\ romfs_call' = RomCall("exists_file", path, r)
              /\ romfs_src' = r.src
    /\ UNCHANGED <<romfs_img, romfs, iter, walk, ctrVars, ncaVars, pfsVars>>

\* romfs.exists_dir(path)
RomExistsDir ==
    /\ RomReady
    /\ \E path \in DirPaths :
          \E r \in {exists_dir(romfs.header, romfs_img, romfs_src, path)} :
              /\ romfs_call' = RomCall("exists_dir", path, r)
              /\ romfs_src' = r.src
    /\ UNCHANGED <<romfs_img, romfs, iter, walk, ctrVars, ncaVars, pfsVars>>

\* romfs.get_file_size(path)
RomGetFileSize ==
    /\ RomReady
    /\ \E path \in FilePaths :
          \E r \in {get_file_size(romfs.header, romfs_img, romfs_src, path)} :
              /\ romfs_call' = RomCall("get_file_size", path, r)
              /\ romfs_src' = r.src
    /\ UNCHANGED <<romfs_img, romfs, iter, walk, ctrVars, ncaVars, pfsVars>>

\* romfs.read_file(path, offset, buf)
RomReadFile ==
    /\ RomReady
    /\ \E path \in FilePaths, rd_in \in RomReads :
          \E r \in {read_file(romfs.header, romfs_img, romfs_src, path, rd_in[1],
                             RomFreshBuf(rd_in[2]))} :
              /\ romfs_call' = [RomCall("read_file", path, r) EXCEPT
                                   !.offset = rd_in[1], !.len = rd_in[2]]
              /\ romfs_src' = r.src
    /\ UNCHANGED <<romfs_img, romfs, iter, walk, ctrVars, ncaVars, pfsVars>>

NextRomFs ==
    RomFsNew \/ RomExistsFile \/ RomExistsDir \/ RomGetFileSize \/ RomReadFile

SpecRomFs == InitRomFs /\ [][NextRomFs]_vars

(***************************************************************************)
(* SpecRomIter: a RomFs, one directory iterator at a time, and the other   *)
(* holders of the source                                                   *)
(*                                                                         *)
(* iter holds the iterator last opened, the path it was opened with,       *)
(* whether that path was built from the root out of names next_dir         *)
(* returned, and what its last successful next_file reported.              *)
(***************************************************************************)

IterCall(op, path, r) ==
    [NoRomCall EXCEPT !.op = op, !.path = path, !.res = r.res, !.err = r.err]

\* romfs.open_dir_iterator(path) with the path of a directory given by the caller
RomOpenDirIterator ==
    /\ RomReady
    /\ \E path \in DirPaths :
          \E r \in {open_dir_iterator(romfs.header, romfs_img, romfs_src, path)} :
              /\ romfs_call' = IterCall("open_dir_iterator", path, r)
              /\ romfs_src' = r.src
              /\ iter' = IF r.res = "Ok"
                         THEN [it |-> r.it, path |-> path, from_root |-> path = << >>,
                               reported |-> << >>]
                         ELSE NoIterator
    /\ UNCHANGED <<romfs_img, romfs, walk, ctrVars, ncaVars, pfsVars>>

\* romfs.open_dir_iterator(format!("{}/{}", path, name)) on the name next_dir
\* has just returned: the recursion into a child directory.
RomOpenChildIterator ==
    /\ RomReady
    /\ romfs_call.op = "next_dir"
    /\ romfs_call.res = "Ok"
    /\ \E path \in {JoinPath(iter.path, romfs_call.ret)} :
          \E r \in {open_dir_iterator(romfs.header, romfs_img, romfs_src, path)} :
              /\ romfs_call' = IterCall("open_dir_iterator", path, r)
              /\ romfs_src' = r.src
              /\ iter' = IF r.res = "Ok"
                         THEN [it |-> r.it, path |-> path, from_root |-> iter.from_root,
                               reported |-> << >>]
                         ELSE NoIterator
    /\ UNCHANGED <<romfs_img, romfs, walk, ctrVars, ncaVars, pfsVars>>

\* iter.next_dir()
IterNextDir ==
    /\ RomReady
    /\ iter.it.open
    /\ \E r \in {next_dir(iter.it, romfs_img, romfs_src)} :
          /\ romfs_call' = [IterCall("next_dir", iter.path, r) EXCEPT !.ret = r.ret]
          /\ romfs_src' = r.src
          /\ iter' = [iter EXCEPT !.it = r.it]
    /\ UNCHANGED <<romfs_img, romfs, walk, ctrVars, ncaVars, pfsVars>>

\* iter.next_file()
IterNextFile ==
    /\ RomReady
    /\ iter.it.open
    /\ \E r \in {next_file(iter.it, romfs_img, romfs_src)} :
          /\ romfs_call' = [IterCall("next_file", iter.path, r) EXCEPT !.ret = r.ret]
          /\ romfs_src' = r.src
          /\ iter' = [iter EXCEPT !.it = r.it,
                                  !.reported = IF r.res = "Ok" THEN r.ret ELSE @]
    /\ UNCHANGED <<romfs_img, romfs, walk, ctrVars, ncaVars, pfsVars>>

\* iter.rewind_dirs()
IterRewindDirs ==
    /\ RomReady
    /\ iter.it.open
    /\ iter' = [iter EXCEPT !.it = rewind_dirs(iter.it)]
    /\ romfs_call' = [NoRomCall EXCEPT !.op = "rewind_dirs", !.path = iter.path, !.res = "Ok"]
    /\ UNCHANGED <<romfs_img, romfs_src, romfs, walk, ctrVars, ncaVars, pfsVars>>

\* iter.rewind_files()
IterRewindFiles ==
    /\ RomReady
    /\ iter.it.open
    /\ iter' = [iter EXCEPT !.it = rewind_files(iter.it)]
    /\ romfs_call' = [NoRomCall EXCEPT !.op = "rewind_files", !.path = iter.path, !.res = "Ok"]
    /\ UNCHANGED <<romfs_img, romfs_src, romfs, walk, ctrVars, ncaVars, pfsVars>>

\* romfs.get_file_size(format!("{}/{}", path, name)) on the name next_file has
\* just returned.
RomGetSizeOfListed ==
    /\ RomReady
    /\ romfs_call.op = "next_file"
    /\ romfs_call.res = "Ok"
    /\ \E path \in {JoinPath(iter.path, romfs_call.ret[1])} :
          \E r \in {get_file_size(romfs.header, romfs_img, romfs_src, path)} :
              /\ romfs_call' = RomCall("get_file_size", path, r)
              /\ romfs_src' = r.src
    /\ UNCHANGED <<romfs_img, romfs, iter, walk, ctrVars, ncaVars, pfsVars>>

\* Another holder of the shared source (a clone of the handle, another section
\* reader) has read the source through and leaves it at its end.
RomSourceMoved ==
    /\ romfs.state = "Ok"
    /\ romfs_src.pos # romfs_src.len
    /\ romfs_src' = [romfs_src EXCEPT !.pos = romfs_src.len]
    /\ UNCHANGED <<romfs_img, romfs, romfs_call, iter, walk, ctrVars, ncaVars, pfsVars>>

NextRomIter ==
    \/ RomFsNew
    \/ RomOpenDirIterator
    \/ RomOpenChildIterator
    \/ IterNextDir
    \/ IterNextFile
    \/ IterRewindDirs
    \/ IterRewindFiles
    \/ RomGetSizeOfListed
    \/ RomSourceMoved

SpecRomIter == InitRomFs /\ [][NextRomIter]_vars

(***************************************************************************)
(* SpecRomWalk: the chain walks of a RomFs, one loop iteration a step      *)
(*                                                                         *)
(* walk holds the loop a call is in (kind), what it looks for (parent,     *)
(* name), the loop variable cur_*_offset (cur), the first_child_file_offset*)
(* open_dir_iterator keeps for its second loop (next), and the outcome.    *)
(* The offsets open_dir_iterator pushes do not decide its loops and are    *)
(* not kept. The images are the well-formed ones and those with a chain    *)
(* that comes back to an earlier entry.                                    *)
(***************************************************************************)

\* The offset of the first of the entries from..Len(entries) that has the parent of e.
FirstOfSiblings(entries, e, from) ==
    entries[CHOOSE k \in from..Len(entries) :
                /\ entries[k].parent_dir_offset = e.parent_dir_offset
                /\ \A j \in from..(k - 1) :
                       entries[j].parent_dir_offset # e.parent_dir_offset].at

\* An entry that ends a chain, linked back instead: its hash link to the first
\* entry of the table, its sibling link to the first child of its parent.
LoopDir(dirs, e, defect) ==
    IF defect = "hash" /\ e.next_dir_hash = INVALID_INFO_OFFSET /\ e.at # dirs[1].at
    THEN [e EXCEPT !.next_dir_hash = dirs[1].at]
    ELSE IF /\ defect = "sibling"
            /\ e.sibling_dir_offset = INVALID_INFO_OFFSET
            /\ e.at # ROOT_DIR_OFFSET
            /\ FirstOfSiblings(dirs, e, 2) # e.at
    THEN [e EXCEPT !.sibling_dir_offset = FirstOfSiblings(dirs, e, 2)]
    ELSE e

LoopFile(files, e, defect) ==
    IF defect = "hash" /\ e.next_file_hash = INVALID_INFO_OFFSET /\ e.at # files[1].at
    THEN [e EXCEPT !.next_file_hash = files[1].at]
    ELSE IF /\ defect = "sibling"
            /\ e.sibling_file_offset = INVALID_INFO_OFFSET
            /\ FirstOfSiblings(files, e, 1) # e.at
    THEN [e EXCEPT !.sibling_file_offset = FirstOfSiblings(files, e, 1)]
    ELSE e

\* The image with the last link of every hash chain, or of every sibling
\* chain, pointing back at an earlier entry instead of holding the sentinel.
LoopedImage(img, defect) ==
    [img EXCEPT
        !.dirs  = [k \in 1..Len(img.dirs) |-> LoopDir(img.dirs, img.dirs[k], defect)],
        !.files = [k \in 1..Len(img.files) |-> LoopFile(img.files, img.files[k], defect)]]

WalkImages == {LoopedImage(img, defect) : img \in RomImages, defect \in {"none", "hash", "sibling"}}

\* The names looked for.
WalkNames == {NameA, NameB, NameQ, NameR}

InitRomWalk ==
    /\ romfs_img \in WalkImages
    /\ romfs_src = [len |-> romfs_img.full_len, pos |-> 0]
    /\ romfs = NoRomFs
    /\ romfs_call = NoRomCall
    /\ iter = NoIterator
    /\ walk = NoWalk
    /\ crashed = FALSE
    /\ key_lines = << >>
    /\ keyset = EmptyKeyset
    /\ nca = NoNca
    /\ opened = NoOpen
    /\ IdleCtr
    /\ IdlePfs

\* No call is inside a loop.
WalkFree == romfs.state = "Ok" /\ walk.state # "walking"

\* A call has entered its loop, or has returned before it.
Entered(kind, parent, name, first) ==
    IF first.res # "Ok"
    THEN [NoWalk EXCEPT !.state = "done", !.kind = kind, !.parent = parent, !.name = name,
                        !.res = first.res]
    ELSE [NoWalk EXCEPT !.state = "walking", !.kind = kind, !.parent = parent,
                        !.name = name, !.cur = first.off]

\* find_dir_offset(ROOT_DIR_OFFSET, name) up to its loop
WalkFindDirOffset ==
    /\ WalkFree
    /\ \E name \in WalkNames :
          \E first \in {read_dir_offset(romfs.header, romfs_img, romfs_src,
                            compute_hash(ROOT_DIR_OFFSET, name,
                                         romfs.header.dir_hash_table_size \div 4))} :
              /\ walk' = Entered("find_dir_offset", ROOT_DIR_OFFSET, name, first)
              /\ romfs_src' = first.src
    /\ UNCHANGED <<romfs_img, romfs, romfs_call, iter, ctrVars, ncaVars, pfsVars>>

\* find_file_info(ROOT_DIR_OFFSET, name) up to its loop
WalkFindFileInfo ==
    /\ WalkFree
    /\ \E name \in WalkNames :
          \E first \in {read_file_offset(romfs.header, romfs_img, romfs_src,
                            compute_hash(ROOT_DIR_OFFSET, name,
                                         romfs.header.file_hash_table_size \div 4))} :
              /\ walk' = Entered("find_file_info", ROOT_DIR_OFFSET, name, first)
              /\ romfs_src' = first.src
    /\ UNCHANGED <<romfs_img, romfs, romfs_call, iter, ctrVars, ncaVars, pfsVars>>

\* open_dir_iterator("") up to its first loop: find_dir finds the root at the
\* head of its chain.
WalkOpenDirIterator ==
    /\ WalkFree
    /\ \E d \in {find_dir(romfs.header, romfs_img, romfs_src, << >>)} :
          /\ d.res = "Ok"
          /\ walk' = [NoWalk EXCEPT !.state = "walking", !.kind = "child_dirs",
                                    !.cur = d.info.first_child_dir_offset,
                                    !.next = d.info.first_child_file_offset]
          /\ romfs_src' = d.src
    /\ UNCHANGED <<romfs_img, romfs, romfs_call, iter, ctrVars, ncaVars, pfsVars>>

\* The call has returned res.
Returned(res) == [walk EXCEPT !.state = "done", !.res = res]

\* One test of the loop condition and, when it holds, one pass of the body.
WalkStep ==
    /\ romfs.state = "Ok"
    /\ walk.state = "walking"
    /\ \/ /\ walk.kind = "find_dir_offset"
          /\ IF walk.cur = INVALID_INFO_OFFSET
             THEN walk' = Returned("NotFound") /\ UNCHANGED romfs_src
             ELSE \E r \in {read_dir_info(romfs_img, romfs_src, romfs.header.dir_table_offset,
                                          walk.cur, TRUE)} :
                      /\ romfs_src' = r.src
                      /\ walk' = IF r.res # "Ok" THEN Returned(r.err)
                                 ELSE IF r.info.parent_dir_offset = walk.parent
                                         /\ r.name = walk.name
                                 THEN Returned("Ok")
                                 ELSE [walk EXCEPT !.cur = r.info.next_dir_hash]
       \/ /\ walk.kind = "find_file_info"
          /\ IF walk.cur = INVALID_INFO_OFFSET
             THEN walk' = Returned("NotFound") /\ UNCHANGED romfs_src
             ELSE \E r \in {read_file_info(romfs_img, romfs_src,
                                           romfs.header.file_table_offset, walk.cur, TRUE)} :
                      /\ romfs_src' = r.src
                      /\ walk' = IF r.res # "Ok" THEN Returned(r.err)
                                 ELSE IF r.info.parent_dir_offset = walk.parent
                                         /\ r.name = walk.name
                                 THEN Returned("Ok")
                                 ELSE [walk EXCEPT !.cur = r.info.next_file_hash]
       \/ /\ walk.kind = "child_dirs"
          /\ IF walk.cur = INVALID_INFO_OFFSET
             THEN /\ walk' = [walk EXCEPT !.kind = "child_files", !.cur = walk.next]
                  /\ UNCHANGED romfs_src
             ELSE \E r \in {read_dir_info(romfs_img, romfs_src, romfs.header.dir_table_offset,
                                          walk.cur, FALSE)} :
                      /\ romfs_src' = r.src
                      /\ walk' = IF r.res # "Ok" THEN Returned(r.err)
                                 ELSE [walk EXCEPT !.cur = r.info.sibling_dir_offset]
       \/ /\ walk.kind = "child_files"
          /\ IF walk.cur = INVALID_INFO_OFFSET
             THEN walk' = Returned("Ok") /\ UNCHANGED romfs_src
             ELSE \E r \in {read_file_info(romfs_img, romfs_src,
                                           romfs.header.file_table_offset, walk.cur, FALSE)} :
                      /\ romfs_src' = r.src
                      /\ walk' = IF r.res # "Ok" THEN Returned(r.err)
                                 ELSE [walk EXCEPT !.cur = r.info.sibling_file_offset]
    /\ UNCHANGED <<romfs_img, romfs, romfs_call, iter, ctrVars, ncaVars, pfsVars>>

NextRomWalk ==
    RomFsNew \/ WalkFindDirOffset \/ WalkFindFileInfo \/ WalkOpenDirIterator \/ WalkStep

\* A call that is in a loop goes on running it.
SpecRomWalk == InitRomWalk /\ [][NextRomWalk]_vars /\ WF_vars(WalkStep)

(***************************************************************************)
(* Claims                                                                  *)
(***************************************************************************)

\* What one read call of n bytes returns right after w.seek(Start(L)).
SingleRead(w, L, n) ==
    LET s == Aes128CtrReader_seek(rd[w], base, [kind |-> "Start", val |-> L])
    IN  Aes128CtrReader_read(s.r, s.b, n)

\* C1: after A.seek(Start(L)), the bytes of consecutive reads whose lengths sum
\* to N, joined, are the bytes one read of N bytes at L returns, for every range
\* [L, L+N) inside A's section, whatever the alignment of L and also when the
\* 16-byte read window reaches past the end of the base source.
C1_PartitionEqualsSingleRead ==
    (run.w # "none" /\ run.start + Len(run.out) <= LogicalLen(run.w))
        => run.out = SingleRead(run.w, run.start, Len(run.out)).out

\* C2: a read of N bytes through A that follows A.seek(Start(P)) returns the
\* plaintext of A's range [P, P+N), whatever wrapper B did to the shared base
\* between A's seek and A's read.
C2_ReadFromOwnOffset ==
    (last.w # "none" /\ last.P + last.n <= LogicalLen(last.w))
        => /\ last.res = "Ok"
           /\ last.out = PlainRange(rd[last.w].key, rd[last.w].ctr,
                                    rd[last.w].base_offset + last.P, last.n)

\* The table of a key-area-encryption-key index in a keyset.
KeyTable(ks, kaek) ==
    CASE kaek = "Application" -> ks.key_area_keys_application
      [] kaek = "Ocean"       -> ks.key_area_keys_ocean
      [] kaek = "System"      -> ks.key_area_keys_system

\* Whether NCA::new got as far as decoding the header.
HeaderDecoded == nca.header.magic # ""

\* C3: NCA::new returns an error, and builds no NCA, whenever the magic of the
\* decrypted header is not "NCA3".
C3_WrongMagicRejected ==
    nca.state = "Ok" => nca.header.magic = Header_MAGIC

\* C4: the index NCA::new selects the key-area key with is
\* max(key_generation_old, key_generation) - 1 when that maximum is above 0 and
\* 0 when it is 0, and the key of a built NCA is the entry of the header's
\* table at that index.
C4_MasterKeyIndex ==
    HeaderDecoded =>
        LET m == Max(nca.header.key_generation_old, nca.header.key_generation)
        IN  /\ nca.sel.kaek = nca.header.key_area_encryption_key_index
            /\ nca.sel.idx = IF m > 0 THEN m - 1 ELSE 0
            /\ nca.state = "Ok" => nca.sel.key = KeyTable(keyset, nca.sel.kaek)[nca.sel.idx + 1]

\* An NCA built from key generations (2, 0) with the key of index 1.
C4_Witness ==
    /\ nca.state = "Ok"
    /\ nca.header.key_generation_old = 2
    /\ nca.header.key_generation = 0
    /\ nca.sel.idx = 1
    /\ nca.sel.key # ZeroKey

\* C5: when the key file held no line for the (family, effective key generation)
\* the header selects, NCA::new returns the KeyNotFound error: it neither
\* panics nor decrypts the key area with a zero-filled table entry.
C5_MissingKeyIsKeyNotFound ==
    (HeaderDecoded
        /\ ~HasKeyLine(key_lines, FamilyBase(nca.sel.kaek), nca.sel.idx))
        => (nca.state = "Err" /\ nca.err = "KeyNotFound")

\* C6: an open call never proceeds for a section whose fs entry has
\* start_offset = 0: when the fs entry it consulted has start_offset 0, it
\* builds no section reader and returns no filesystem (the claim's error for
\* it is InvalidInput).
C6_ZeroStartNeverOpens ==
    opened.start_offset = 0
        => /\ opened.reader.base_offset = -1
           /\ opened.res # "Ok"

\* The retained fs header an open call with this index reads.
RetainedHeader(idx) == nca.fs_headers[idx + 1]

WrongTypeOpen ==
    /\ opened.op # "none"
    /\ opened.idx < Len(nca.fs_headers)
    /\ RetainedHeader(opened.idx).fs_type = (IF opened.op = "pfs0" THEN "RomFs" ELSE "PartitionFs")

\* C7: open_pfs0_filesystem on a retained RomFs section and
\* open_romfs_filesystem on a retained PartitionFs section return the
\* InvalidInput wrong-type error for every encryption_type of the section, and
\* build no reader and no filesystem.
C7_TypeCheckedBeforeEncryption ==
    WrongTypeOpen
        => /\ opened.res = "Err"
           /\ opened.err = "InvalidInput"
           /\ opened.msg = "Invalid filesystem type"
           /\ opened.reader.base_offset = -1
           /\ ~crashed

\* C7 witness: open_pfs0_filesystem met a RomFs section that is not AesCtr.
C7_Witness ==
    /\ WrongTypeOpen
    /\ opened.op = "pfs0"
    /\ RetainedHeader(opened.idx).encryption_type = "AesCtrEx"
    /\ opened.res = "Err"

\* C8: opening a retained section of the matching fs_type whose
\* encryption_type is not AesCtr returns an Unsupported error value; the call
\* does not abort.
C8_UnsupportedIsAnError ==
    (/\ opened.op # "none"
     /\ opened.idx < Len(nca.fs_headers)
     /\ RetainedHeader(opened.idx).fs_type = (IF opened.op = "pfs0" THEN "PartitionFs" ELSE "RomFs")
     /\ RetainedHeader(opened.idx).encryption_type # "AesCtr")
        => (opened.res = "Err" /\ opened.err = "Unsupported" /\ ~crashed)

\* The entry and data base the last read_file call was about.
CallEntry == pfs0.file_entries[pfs_call.idx + 1]
DataBase ==
    (SizeOfHeader + (SizeOfFileEntry * pfs0.header.file_count)) + pfs0.header.string_table_size
Untouched ==
    /\ pfs_call.buf = FreshBuf(pfs_call.len)
    /\ pfs_call.ops = << >>

\* C9: read_file fails with InvalidInput when the index is not below
\* file_count, and with UnexpectedEof when the index is in range and
\* offset + buf.len() exceeds the entry's size; in both cases no byte of buf
\* is modified and the reader is neither seeked nor read.
C9_RejectedReadsTouchNothing ==
    pfs_call.op = "read_file"
        => /\ pfs_call.idx >= pfs0.header.file_count
                => /\ pfs_call.res = "Err"
                   /\ pfs_call.err = "InvalidInput"
                   /\ Untouched
           /\ (/\ pfs_call.idx < pfs0.header.file_count
               /\ pfs_call.offset + pfs_call.len > CallEntry.size)
                => /\ pfs_call.res = "Err"
                   /\ pfs_call.err = "UnexpectedEof"
                   /\ Untouched

\* What read_file is to deliver for a call inside its entry: len, and the
\* reader's bytes at [DataBase + entry.offset + offset, + len).
DeliversRange ==
    /\ pfs_call.res = "Ok"
    /\ pfs_call.ret = pfs_call.len
    /\ pfs_call.buf = [j \in 1..pfs_call.len |->
                          PfsByte(((DataBase + CallEntry.offset) + pfs_call.offset) + (j - 1))]
InsideEntry ==
    /\ pfs_call.op = "read_file"
    /\ pfs_call.idx < pfs0.header.file_count
    /\ pfs_call.offset + pfs_call.len <= CallEntry.size

LineIdx(line) ==
    Max(Max(get_key_name_idx("key_area_key_application_", line.name),
            get_key_name_idx("key_area_key_ocean_", line.name)),
        get_key_name_idx("key_area_key_system_", line.name))

\* The table of the keyset a key line is for.
LineTable(ks, line) ==
    CASE line.name.base = "key_area_key_application_" -> ks.key_area_keys_application
      [] line.name.base = "key_area_key_ocean_"       -> ks.key_area_keys_ocean
      [] line.name.base = "key_area_key_system_"      -> ks.key_area_keys_system
      [] OTHER                                        -> << >>

\* C17: after Keyset::from has parsed the lines, every line
\* key_area_key_<family>_HH = v that no later line of the same family and HH
\* follows has its v at index HH of the family's table, in whatever order the
\* indexed lines came.
C17_KeyStoredAtItsIndex ==
    \A k \in 1..Len(key_lines) :
        LET line == key_lines[k]
            idx  == LineIdx(line)
        IN  (/\ idx >= 0
             /\ \A j \in (k + 1)..Len(key_lines) :
                    ~(key_lines[j].name.base = line.name.base /\ LineIdx(key_lines[j]) = idx))
                => /\ idx < Len(LineTable(keyset, line))
                   /\ LineTable(keyset, line)[idx + 1] = line.value

\* The on-disk slot (1..4) a present fs header was decoded from: the sections
\* of SpecNca carry ctr = 10 * slot.
SlotOfHeader(fs_header) == fs_header.ctr \div 10

\* C18: an open call on a retained index that builds a section reader took
\* the section start from the fs entry of the on-disk slot its fs header was
\* decoded from.
C18_HeaderAndEntryOfSameSlot ==
    (/\ opened.op # "none"
     /\ opened.idx < Len(nca.fs_headers)
     /\ opened.reader.base_offset # -1)
        => opened.start_offset
              = nca.header.fs_entries[SlotOfHeader(RetainedHeader(opened.idx))].start_offset

(***************************************************************************)
(* RomFS claims                                                            *)
(***************************************************************************)

\* The path of the directory whose entry the image has at offset off.
RECURSIVE DirPathAt(_, _)
DirPathAt(img, off) ==
    IF off = ROOT_DIR_OFFSET THEN << >>
    ELSE JoinPath(DirPathAt(img, EntryAt(img.dirs, off).parent_dir_offset),
                  EntryAt(img.dirs, off).name)

\* The path of the k-th file entry of the image.
FilePathOf(img, k) ==
    JoinPath(DirPathAt(img, img.files[k].parent_dir_offset), img.files[k].name)

\* The last call was this operation on the path of the k-th file of the image.
CallOnFile(op, k) ==
    /\ romfs_call.op = op
    /\ romfs_call.path = FilePathOf(romfs_img, k)

\* The whole image is in the source.
WholeSource == romfs_src.len = romfs_img.full_len

\* C11: read_file(path, offset, buf) on an existing file with
\* offset + buf.len() above the file's data_size fails with UnexpectedEof.
C11_ReadPastEndIsUnexpectedEof ==
    \A k \in 1..Len(romfs_img.files) :
        (/\ CallOnFile("read_file", k)
         /\ romfs_call.offset + romfs_call.len > romfs_img.files[k].data_size)
            => (romfs_call.res = "Err" /\ romfs_call.err = "UnexpectedEof")

\* The lookup an exists_file / exists_dir call made on its path. Every read of
\* a lookup follows a seek from the start of the source, so the lookup made
\* from the position the call left has the outcome the call's lookup had.
LookupOf(call) ==
    IF call.op = "exists_dir"
    THEN find_dir(romfs.header, romfs_img, romfs_src, call.path)
    ELSE find_file(romfs.header, romfs_img, romfs_src, call.path)

\* C13: exists_file and exists_dir return false only when their lookup ended
\* with NotFound; a lookup that failed for another reason is not answered false.
C13_OnlyNotFoundIsFalse ==
    (/\ romfs_call.op \in {"exists_file", "exists_dir"}
     /\ romfs_call.res = "Ok"
     /\ romfs_call.ret = FALSE)
        => (LookupOf(romfs_call).res = "Err" /\ LookupOf(romfs_call).err = "NotFound")

\* The bytes the image stores at [offset, offset + n) of the data of its k-th file.
StoredBytes(img, k, offset, n) ==
    [j \in 1..n |->
        RomByte(((img.header.file_data_offset + img.files[k].data_offset) + offset) + (j - 1))]

\* C15: a file lookup succeeds only for the entry whose parent is the
\* directory of the path's leading segments and whose name is the last
\* segment: exists_file is true exactly for the paths of the image's files
\* (a name that is only under another directory is absent), get_file_size
\* gives the size of the entry of that very path, and with the whole image in
\* the source every file is found by its path and a read inside it returns
\* the bytes stored for it.
C15_LookupByParentAndName ==
    /\ (romfs_call.op = "exists_file" /\ romfs_call.ret = TRUE)
          => \E k \in 1..Len(romfs_img.files) : romfs_call.path = FilePathOf(romfs_img, k)
    /\ (romfs_call.op = "get_file_size" /\ romfs_call.res = "Ok")
          => \E k \in 1..Len(romfs_img.files) :
                /\ romfs_call.path = FilePathOf(romfs_img, k)
                /\ romfs_call.ret = romfs_img.files[k].data_size
    /\ \A k \in 1..Len(romfs_img.files) :
          /\ (WholeSource /\ CallOnFile("exists_file", k))
                => (romfs_call.res = "Ok" /\ romfs_call.ret = TRUE)
          /\ (WholeSource /\ CallOnFile("get_file_size", k))
                => (romfs_call.res = "Ok" /\ romfs_call.ret = romfs_img.files[k].data_size)
          /\ (/\ WholeSource
              /\ CallOnFile("read_file", k)
              /\ romfs_call.offset + romfs_call.len <= romfs_img.files[k].data_size)
                => /\ romfs_call.res = "Ok"
                   /\ romfs_call.ret = romfs_call.len
                   /\ romfs_call.buf
                        = StoredBytes(romfs_img, k, romfs_call.offset, romfs_call.len)

\* The image has q/b and r/a in the one bucket of its file table, and
\* exists_file("q/a") answered false.
C15_Witness ==
    /\ WholeSource
    /\ romfs_img.header.file_hash_table_size = 4
    /\ Len(romfs_img.files) = 2
    /\ FilePathOf(romfs_img, 1) = JoinPath(NameQ, NameB)
    /\ FilePathOf(romfs_img, 2) = JoinPath(NameR, NameA)
    /\ romfs_call.op = "exists_file"
    /\ romfs_call.path = JoinPath(NameQ, NameA)
    /\ romfs_call.res = "Ok"
    /\ romfs_call.ret = FALSE

\* The paths asked for: a file of the root, a file of a directory, a file of a
\* nested directory, and the name of a directory.
AskedPaths ==
    {NameA, JoinPath(NameQ, NameA), JoinPath(JoinPath(NameQ, NameR), NameA), NameQ}

\* C12: in every state the RomFs can be in, whatever was called before, and
\* for every path p, exists_file(p) answers true exactly when a
\* get_file_size(p) made after it returns Ok, be it made right after it or
\* after another holder has left the shared source at its end.
C12_ExistsIffSizeOk ==
    romfs.state = "Ok" =>
        \A p \in AskedPaths :
            LET Agree(e) ==
                    \A pos \in {e.src.pos, romfs_src.len} :
                        (e.ret = TRUE)
                            <=> (get_file_size(romfs.header, romfs_img,
                                               [e.src EXCEPT !.pos = pos], p).res = "Ok")
            IN  Agree(exists_file(romfs.header, romfs_img, romfs_src, p))

\* A file that the iterator listed had its size taken, the source was then
\* left at its end by another holder, and exists_file of its path is true.
C12_Witness ==
    /\ romfs_call.op = "get_file_size"
    /\ romfs_call.res = "Ok"
    /\ iter.it.cur_file_idx > 0
    /\ romfs_src.pos = romfs_src.len
    /\ exists_file(romfs.header, romfs_img, romfs_src, romfs_call.path).ret = TRUE

\* C14: on a well-formed image wholly in the source, a file that next_file
\* listed in a directory reached from the root through the names next_dir
\* returned has, by get_file_size of the path built from those names, the
\* size next_file reported.
C14_LookupAgreesWithIteration ==
    (/\ romfs_call.op = "get_file_size"
     /\ iter.from_root
     /\ WholeSource)
        => /\ romfs_call.path = JoinPath(iter.path, iter.reported[1])
           /\ romfs_call.res = "Ok"
           /\ romfs_call.ret = iter.reported[2]

\* The size of a file listed in the nested directory q/r was taken.
C14_Witness ==
    /\ romfs_call.op = "get_file_size"
    /\ romfs_call.res = "Ok"
    /\ iter.from_root
    /\ WholeSource
    /\ iter.path = JoinPath(NameQ, NameR)

\* The directory half and the file half of the iterator.
DirCursor  == <<iter.it.cur_dir_idx, iter.it.dir_offsets>>
FileCursor == <<iter.it.cur_file_idx, iter.it.file_offsets>>

\* C16: next_dir and rewind_dirs leave the file cursor and the file offset
\* list as they were, and next_file and rewind_files leave the directory
\* cursor and the directory offset list as they were; what a next call
\* returns is the entry its own cursor stands at, wherever the other cursor is.
C16_SubCursorsIndependent ==
    [][/\ (IterNextDir \/ IterRewindDirs) => UNCHANGED FileCursor
       /\ (IterNextFile \/ IterRewindFiles) => UNCHANGED DirCursor
       /\ (IterNextDir /\ romfs_call'.res = "Ok")
             => romfs_call'.ret
                  = EntryAt(romfs_img.dirs, iter.it.dir_offsets[iter.it.cur_dir_idx + 1]).name
       /\ (IterNextFile /\ romfs_call'.res = "Ok")
             => romfs_call'.ret[1]
                  = EntryAt(romfs_img.files,
                            iter.it.file_offsets[iter.it.cur_file_idx + 1]).name]_vars

\* rewind_dirs was called while the file cursor stood past the first file.
C16_Witness ==
    /\ romfs_call.op = "rewind_dirs"
    /\ iter.it.cur_file_idx > 0
    /\ iter.it.cur_dir_idx = 0
    /\ Len(iter.it.dir_offsets) > 0

\* The entries of a sibling chain of the image from the entry at off on.
RECURSIVE DirSiblings(_, _)
DirSiblings(img, off) ==
    IF off = INVALID_INFO_OFFSET THEN << >>
    ELSE <<off>> \o DirSiblings(img, EntryAt(img.dirs, off).sibling_dir_offset)

RECURSIVE FileSiblings(_, _)
FileSiblings(img, off) ==
    IF off = INVALID_INFO_OFFSET THEN << >>
    ELSE <<off>> \o FileSiblings(img, EntryAt(img.files, off).sibling_file_offset)

\* The entry of the directory of this path in the image.
DirOfPath(img, path) ==
    img.dirs[CHOOSE k \in 1..Len(img.dirs) : DirPathAt(img, img.dirs[k].at) = path]

\* The source holds the fixed part and the name of this entry of a table.
Readable(table_offset, fixed, e) ==
    romfs_src.len >= ((table_offset + e.at) + fixed) + Len(e.name)

\* Both cursors are within their counts.
CursorsWithinCounts ==
    /\ 0 <= iter.it.cur_dir_idx
    /\ iter.it.cur_dir_idx <= get_dir_count(iter.it)
    /\ 0 <= iter.it.cur_file_idx
    /\ iter.it.cur_file_idx <= get_file_count(iter.it)

\* A step that opens an iterator gives it the two sibling chains of the
\* directory from its first children on, with both cursors at 0; a rewind puts
\* its cursor at 0.
OpensAndRewinds ==
    /\ ((RomOpenDirIterator \/ RomOpenChildIterator) /\ iter'.it.open)
          => /\ iter'.it.cur_dir_idx = 0
             /\ iter'.it.cur_file_idx = 0
             /\ iter'.it.dir_offsets
                  = DirSiblings(romfs_img,
                                DirOfPath(romfs_img, iter'.path).first_child_dir_offset)
             /\ iter'.it.file_offsets
                  = FileSiblings(romfs_img,
                                 DirOfPath(romfs_img, iter'.path).first_child_file_offset)
    /\ IterRewindDirs => iter'.it.cur_dir_idx = 0
    /\ IterRewindFiles => iter'.it.cur_file_idx = 0

\* The outcome of a next_dir / next_file step. While the cursor is below the
\* count the call returns the child the cursor stands at and steps the cursor
\* (with any_source: whatever the source holds; without: when the source holds
\* that child's entry and name, else the call fails and the cursor stays); at
\* the count it fails with UnexpectedEof and the cursor stays.
NextSteps(any_source) ==
    /\ IterNextDir =>
          LET e == EntryAt(romfs_img.dirs, iter.it.dir_offsets[iter.it.cur_dir_idx + 1])
          IN  IF iter.it.cur_dir_idx = get_dir_count(iter.it)
              THEN /\ romfs_call'.res = "Err"
                   /\ romfs_call'.err = "UnexpectedEof"
                   /\ iter'.it.cur_dir_idx = iter.it.cur_dir_idx
              ELSE IF any_source
                      \/ Readable(iter.it.dir_table_offset, SizeOfDirectoryInfo, e)
              THEN /\ romfs_call'.res = "Ok"
                   /\ romfs_call'.ret = e.name
                   /\ iter'.it.cur_dir_idx = iter.it.cur_dir_idx + 1
              ELSE /\ romfs_call'.res = "Err"
                   /\ iter'.it.cur_dir_idx = iter.it.cur_dir_idx
    /\ IterNextFile =>
          LET e == EntryAt(romfs_img.files, iter.it.file_offsets[iter.it.cur_file_idx + 1])
          IN  IF iter.it.cur_file_idx = get_file_count(iter.it)
              THEN /\ romfs_call'.res = "Err"
                   /\ romfs_call'.err = "UnexpectedEof"
                   /\ iter'.it.cur_file_idx = iter.it.cur_file_idx
              ELSE IF any_source
                      \/ Readable(iter.it.file_table_offset, SizeOfFileInfo, e)
              THEN /\ romfs_call'.res = "Ok"
                   /\ romfs_call'.ret = <<e.name, e.data_size>>
                   /\ iter'.it.cur_file_idx = iter.it.cur_file_idx + 1
              ELSE /\ romfs_call'.res = "Err"
                   /\ iter'.it.cur_file_idx = iter.it.cur_file_idx

\* C20: both cursors stay within 0..count; an iterator starts, and a rewind
\* restarts, at the first child of the directory's sibling chain; each next
\* call below the count returns the child the cursor stands at and steps the
\* cursor, provided the source holds that child's entry and name (else it
\* fails and the cursor stays); each next call at the count fails with
\* UnexpectedEof and the cursor stays.
C20_CursorWalksTheChain ==
    /\ []CursorsWithinCounts
    /\ [][OpensAndRewinds /\ NextSteps(FALSE)]_vars

\* C20 as stated: exactly count next calls succeed after creation or rewind,
\* whatever the source holds.
C20_CursorWalksTheChain_AnySource ==
    /\ []CursorsWithinCounts
    /\ [][OpensAndRewinds /\ NextSteps(TRUE)]_vars

\* Both files of a directory were returned and a further next_file failed.
C20_Witness ==
    /\ WholeSource
    /\ romfs_call.op = "next_file"
    /\ romfs_call.res = "Err"
    /\ romfs_call.err = "UnexpectedEof"
    /\ get_file_count(iter.it) = 2
    /\ iter.it.cur_file_idx = 2

\* C19: every chain walk ends: a call that is in one of the loops of
\* find_dir_offset, find_file_info or open_dir_iterator returns in the end,
\* on every image, those with a chain that comes back to an entry included.
C19_EveryChainWalkEnds == (walk.state = "walking") ~> (walk.state = "done")

====
